---------------------------- MODULE Spec2Model ----------------------------
(***************************************************************************)
(* EduDraw: a classroom random-selection tool (React).                     *)
(*                                                                         *)
(* The module models the App component (the draw orchestrator: lists,      *)
(* no-repeat pools, history, draw modes), the host's timer queue and       *)
(* animation-frame slot, and the four simulators (SpinWheel, DuckRace,     *)
(* MarbleRace, CardDraw).                                                  *)
(*                                                                         *)
(* Conventions.                                                            *)
(*  - Array indices stored in pools are the 0-based indices of the code;   *)
(*    TLA+ sequences are 1-based, so names[i] of the code is names[i+1].   *)
(*  - A text (result string, toast) is a sequence of string tokens; a      *)
(*    template string `${a} is assigned to: ${b}` is the concatenation of  *)
(*    its pieces.                                                          *)
(*  - Math.random() is the input u/RandomUnits for u in 0..RandomUnits-1.  *)
(*  - Every action that sets App state ends with the re-render of App and  *)
(*    the effects of the mounted simulator (SimEffects).                   *)
(***************************************************************************)
EXTENDS Integers, Sequences, FiniteSets, TLC

\* ------------------------------------------------------------------ bounds

MaxNames == 3
\* Math.random() takes the values u/RandomUnits, u in 0..RandomUnits-1
RandomUnits == 6
\* draws of the pool specification stop when the history holds this many entries
MaxLog == 3
\* appends of the history specification
MaxAppends == 52
\* list sizes of the groups specification
MaxGroupNames == 5
\* accepted interactive draws per behaviour
MaxSessions == 2
\* pending setTimeout callbacks
MaxTimers == 6

\* tasks a paired-mode run adds
MaxTasks == 2

\* history entries up to which the list-maintenance run draws
MaxListDraws == 1

MaxStoreDraws == 1

MaxSpins == 2

\* ------------------------------------------------------- program constants

\* logHistory keeps the first 50 entries
HistoryCap == 50

\* DEFAULT_STATE.names
Roster == <<"John", "Jane", "Alice", "Bob", "Charlie", "Diana">>

\* tasks typed into the task input
TaskRoster == <<"Clean the board", "Water the plants", "Hand out books", "Collect homework">>

NoWinner == [name |-> "", index |-> -1]
InitialResultText == <<"Click 'DRAW LOTS' to begin!">>
NoMessage == <<>>

\* ----------------------------------------------------------------- helpers

Range(s) == {s[i] : i \in DOMAIN s}

Min(a, b) == IF a <= b THEN a ELSE b

Max(a, b) == IF a >= b THEN a ELSE b

\* Array.prototype.slice(from, to) on a sequence (0-based, to exclusive)
Slice(s, from, to) == SubSeq(s, from + 1, Min(to, Len(s)))

\* mutant: the splice drops the last position, whatever was selected
SpliceOutLast(s, pos) == SubSeq(s, 1, Len(s) - 1)

\* Array.prototype.splice(pos, 1) on a copy: the array without position pos
SpliceOut(s, pos) == [i \in 1..(Len(s) - 1) |-> IF i <= pos THEN s[i] ELSE s[i + 1]]

\* list.map((_, i) => i)
AllIndices(list) == [i \in 1..Len(list) |-> i - 1]

\* pool.filter(i => i < list.length)
FilterValid(pool, list) == SelectSeq(pool, LAMBDA i : i < Len(list))

\* currentList.includes(x)
Includes(list, x) == \E i \in DOMAIN list : list[i] = x

\* Math.floor(Math.random() * len), Math.random() = u / RandomUnits
RandIndex(u, len) == (u * len) \div RandomUnits


\* the orderings of a set of positions
RECURSIVE Orders(_)
Orders(S) ==
    IF S = {} THEN {<<>>}
    ELSE UNION {{<<x>> \o p : p \in Orders(S \ {x})} : x \in S}

\* n! orderings of a list: the results [...list].sort(() => Math.random() - 0.5)
\* can produce (a comparator that answers at random leaves the order to the
\* engine, which still returns a permutation of the elements)
Shuffles(list) == {[i \in 1..Len(list) |-> list[p[i]]] : p \in Orders(1..Len(list))}

\* ---------------------------------------------------------------- variables

VARIABLES
    \* AppState (useState state)
    names, tasks, history, isNameNoRepeat, availableNamesIndices,
    isTaskNoRepeat, availableTasksIndices, mode, interactiveMode, numGroups,
    \* the other useState cells of App
    isSpinning, currentWinner, tempMessage, resultCardText, isFullscreen,
    showResultCard,
    \* whether a timeout of triggerResultAnimation is pending whose callback
    \* will change showResultCard
    resultTimer,
    \* host: pending setTimeout callbacks (in creation order), whether the
    \* animation frame requested last (requestRef.current) is still pending
    timers, raf,
    \* CardDraw
    step,
    \* SpinWheel
    rotation, lastRotation,
    \* the closure of the running DuckRace / MarbleRace effect
    race,
    \* history variables of the verification: number of accepted interactive
    \* draws, completion-callback invocations per session, whether a timer of
    \* a torn-down simulator has invoked the completion callback
    sessionId, endCalls, lateCall,
    \* scratch state of the pure-function specifications
    probe

appVars == <<names, tasks, history, isNameNoRepeat, availableNamesIndices,
             isTaskNoRepeat, availableTasksIndices, mode, interactiveMode, numGroups,
             isSpinning, currentWinner, tempMessage, resultCardText, isFullscreen,
             showResultCard, resultTimer>>

simVars == <<timers, raf, step, rotation, lastRotation, race, sessionId, endCalls, lateCall>>

vars == <<appVars, simVars, probe>>

\* the state a render of App closes over
AppRec ==
    [names |-> names, tasks |-> tasks, history |-> history,
     isNameNoRepeat |-> isNameNoRepeat, availableNamesIndices |-> availableNamesIndices,
     isTaskNoRepeat |-> isTaskNoRepeat, availableTasksIndices |-> availableTasksIndices,
     mode |-> mode, interactiveMode |-> interactiveMode, numGroups |-> numGroups,
     isSpinning |-> isSpinning, currentWinner |-> currentWinner,
     tempMessage |-> tempMessage, resultCardText |-> resultCardText,
     isFullscreen |-> isFullscreen,
     showResultCard |-> showResultCard, resultTimer |-> resultTimer]

SetApp(S) ==
    /\ names' = S.names
    /\ tasks' = S.tasks
    /\ history' = S.history
    /\ isNameNoRepeat' = S.isNameNoRepeat
    /\ availableNamesIndices' = S.availableNamesIndices
    /\ isTaskNoRepeat' = S.isTaskNoRepeat
    /\ availableTasksIndices' = S.availableTasksIndices
    /\ mode' = S.mode
    /\ interactiveMode' = S.interactiveMode
    /\ numGroups' = S.numGroups
    /\ isSpinning' = S.isSpinning
    /\ currentWinner' = S.currentWinner
    /\ tempMessage' = S.tempMessage
    /\ resultCardText' = S.resultCardText
    /\ isFullscreen' = S.isFullscreen
    /\ showResultCard' = S.showResultCard
    /\ resultTimer' = S.resultTimer

\* DEFAULT_STATE and the initial useState values, with the list given
DefaultState(list) ==
    [names |-> list, tasks |-> <<>>, history |-> <<>>,
     isNameNoRepeat |-> FALSE, availableNamesIndices |-> AllIndices(list),
     isTaskNoRepeat |-> FALSE, availableTasksIndices |-> <<>>,
     mode |-> "single", interactiveMode |-> "wheel", numGroups |-> 2,
     isSpinning |-> FALSE, currentWinner |-> NoWinner,
     tempMessage |-> NoMessage, resultCardText |-> InitialResultText,
     isFullscreen |-> FALSE,
     showResultCard |-> FALSE, resultTimer |-> FALSE]

\* ------------------------------------------------------- App: logic helpers

\* showToast(msg): the message shown (its expiry is the action ToastExpire)
showToast(S, msg) == [S EXCEPT !.tempMessage = msg]

\* triggerResultAnimation(): the card is hidden and a timeout of 50 ms set
\* (its callback is the action ShowResult)
triggerResultAnimation(S) == [S EXCEPT !.showResultCard = FALSE, !.resultTimer = TRUE]

\* mutant: the reset leaves the pool as it is
resetAvailableNamesKeepsPool(S) == S

\* resetAvailableNames()
resetAvailableNames(S) == [S EXCEPT !.availableNamesIndices = AllIndices(S.names)]

\* resetAvailableTasks()
resetAvailableTasks(S) == [S EXCEPT !.availableTasksIndices = AllIndices(S.tasks)]

\* mutant: the log keeps its last 50 entries
PrependKeepLast(entry, log) ==
    LET all == <<entry>> \o log
    IN  SubSeq(all, Max(1, Len(all) - HistoryCap + 1), Len(all))

\* [entry, ...log].slice(0, 50)
Prepend(entry, log) == Slice(<<entry>> \o log, 0, HistoryCap)

\* logHistory(result, groups), called from a render that closed over C (its
\* state.history and state.mode), applied to the current state S by the
\* functional setState; id is Date.now()
logHistory(S, C, result, groups, id) ==
    [S EXCEPT !.history =
        Prepend([id |-> id, result |-> result, mode |-> C.mode, groups |-> groups], C.history)]

\* mutant: the selected position is removed from the pool as if it were a value
selectNameIndexSplicesValue(S, u) ==
    IF Len(S.names) = 0 THEN [idx |-> -1, S |-> S]
    ELSE
        LET pool == FilterValid(IF S.isNameNoRepeat THEN S.availableNamesIndices
                                ELSE AllIndices(S.names), S.names)
        IN  IF S.isNameNoRepeat /\ Len(pool) = 0
            THEN [idx |-> -1,
                  S |-> resetAvailableNames(showToast(S, <<"All names drawn! Resetting list.">>))]
            ELSE
                LET randIndex == RandIndex(u, Len(pool))
                IN  [idx |-> pool[randIndex + 1],
                     S |-> IF S.isNameNoRepeat
                           THEN [S EXCEPT !.availableNamesIndices =
                                    SelectSeq(pool, LAMBDA i : i # randIndex)]
                           ELSE S]

\* mutant: selectNameIndex that never removes the selected index from the pool
selectNameIndexNoSplice(S, u) ==
    IF Len(S.names) = 0 THEN [idx |-> -1, S |-> S]
    ELSE
        LET pool == FilterValid(IF S.isNameNoRepeat THEN S.availableNamesIndices
                                ELSE AllIndices(S.names), S.names)
        IN  IF S.isNameNoRepeat /\ Len(pool) = 0
            THEN [idx |-> -1,
                  S |-> resetAvailableNames(showToast(S, <<"All names drawn! Resetting list.">>))]
            ELSE [idx |-> pool[RandIndex(u, Len(pool)) + 1], S |-> S]

\* selectNameIndex(): idx is the selected index, -1 for null; S the state after
\* its updateState calls; u is the value of Math.random()
selectNameIndex(S, u) ==
    IF Len(S.names) = 0 THEN [idx |-> -1, S |-> S]
    ELSE
        LET pool == FilterValid(IF S.isNameNoRepeat THEN S.availableNamesIndices
                                ELSE AllIndices(S.names), S.names)
        IN  IF S.isNameNoRepeat /\ Len(pool) = 0
            THEN [idx |-> -1,
                  S |-> resetAvailableNames(showToast(S, <<"All names drawn! Resetting list.">>))]
            ELSE
                LET randIndex == RandIndex(u, Len(pool))
                IN  [idx |-> pool[randIndex + 1],
                     S |-> IF S.isNameNoRepeat
                           THEN [S EXCEPT !.availableNamesIndices = SpliceOut(pool, randIndex)]
                           ELSE S]

\* mutant: selectTask that gives up on an exhausted pool as selectNameIndex does
selectTaskAborts(S, u) ==
    LET filtered == FilterValid(IF S.isTaskNoRepeat THEN S.availableTasksIndices
                                ELSE AllIndices(S.tasks), S.tasks)
        randIndex == RandIndex(u, Len(filtered))
    IN  IF Len(S.tasks) = 0 THEN [task |-> "No Task", S |-> S]
        ELSE IF S.isTaskNoRepeat /\ Len(filtered) = 0
        THEN [task |-> "No Task",
              S |-> resetAvailableTasks(showToast(S, <<"All tasks assigned! Resetting task list.">>))]
        ELSE [task |-> S.tasks[filtered[randIndex + 1] + 1],
              S |-> IF S.isTaskNoRepeat
                    THEN [S EXCEPT !.availableTasksIndices = SpliceOut(filtered, randIndex)]
                    ELSE S]

\* selectTask(): task is the returned string; S the state after its
\* updateState calls (the later updateState wins over the reset)
selectTask(S, u) ==
    IF Len(S.tasks) = 0 THEN [task |-> "No Task", S |-> S]
    ELSE
        LET filtered == FilterValid(IF S.isTaskNoRepeat THEN S.availableTasksIndices
                                    ELSE AllIndices(S.tasks), S.tasks)
            exhausted == S.isTaskNoRepeat /\ Len(filtered) = 0
            S1 == IF exhausted
                  THEN resetAvailableTasks(showToast(S, <<"All tasks assigned! Resetting task list.">>))
                  ELSE S
            pool == IF exhausted THEN AllIndices(S.tasks) ELSE filtered
            randIndex == RandIndex(u, Len(pool))
        IN  [task |-> S.tasks[pool[randIndex + 1] + 1],
             S |-> IF S.isTaskNoRepeat
                   THEN [S1 EXCEPT !.availableTasksIndices = SpliceOut(pool, randIndex)]
                   ELSE S1]


\* groups.map((g, i) => `Group ${i + 1}: ${g.join(', ')}`).join(' | ')
RECURSIVE JoinNames(_)
JoinNames(g) ==
    IF Len(g) = 0 THEN <<>>
    ELSE IF Len(g) = 1 THEN <<g[1]>>
    ELSE <<g[1], ", ">> \o JoinNames(Tail(g))

RECURSIVE GroupsText(_, _)
GroupsText(groups, i) ==
    IF i > Len(groups) THEN <<>>
    ELSE (IF i > 1 THEN <<" | ">> ELSE <<>>)
         \o <<"Group ", ToString(i), ": ">> \o JoinNames(groups[i])
         \o GroupsText(groups, i + 1)

\* mutant: consecutive blocks of ceil(n / k) names instead of round-robin
PartitionBlocks(shuffled, k) ==
    LET c == (Len(shuffled) + k - 1) \div k
    IN  [g \in 1..k |->
            SubSeq(shuffled, Min((g - 1) * c, Len(shuffled)) + 1, Min(g * c, Len(shuffled)))]

\* shuffled.forEach((name, i) => groups[i % numGroups].push(name)) on
\* Array.from({ length: numGroups }, () => [])
Partition(shuffled, k) ==
    [g \in 1..k |->
        LET picked == {i \in 1..Len(shuffled) : (i - 1) % k = g - 1}
        IN  [j \in 1..Cardinality(picked) |-> shuffled[(j - 1) * k + g]]]

\* handleDraw(), lines 235-244: the groups made, logged and announced
MakeGroups(S, rnd) ==
    LET groups == Partition(rnd.order, S.numGroups)
        S1 == logHistory(S, S, GroupsText(groups, 1), groups, rnd.id)
    IN  triggerResultAnimation(
            [S1 EXCEPT !.resultCardText =
                <<"Groups Created! (", ToString(S.numGroups), " groups)">>])

\* mutant: the "Group Mode" branch without its check of the list's length
groupsDrawUnchecked(S, rnd) ==
    IF S.numGroups <= 0 THEN showToast(S, <<"Invalid group number.">>)
    ELSE MakeGroups(S, rnd)

\* mutant: the groups draw takes a name from the pool first, as the other
\* modes do
groupsDrawUsesPool(S, rnd) ==
    LET sel == selectNameIndex(S, rnd.name)
    IN  IF S.numGroups <= 0 THEN showToast(S, <<"Invalid group number.">>)
        ELSE IF Len(S.names) < S.numGroups
        THEN showToast(S, <<"Need at least ", ToString(S.numGroups), " names.">>)
        ELSE IF sel.idx = -1 THEN sel.S
        ELSE MakeGroups(sel.S, rnd)

\* handleDraw(), "Group Mode" (lines 231-245)
groupsDraw(S, rnd) ==
    IF S.numGroups <= 0 THEN showToast(S, <<"Invalid group number.">>)
    ELSE IF Len(S.names) < S.numGroups
    THEN showToast(S, <<"Need at least ", ToString(S.numGroups), " names.">>)
    ELSE MakeGroups(S, rnd)

\* the winner handleDraw's interactive branch sets for the selected index
StartSession(S, sel) ==
    IF sel.idx = -1 THEN sel.S
    ELSE [sel.S EXCEPT
            !.currentWinner = [name |-> S.names[sel.idx + 1], index |-> sel.idx],
            !.isSpinning = TRUE,
            !.resultCardText = <<"...ANIMATING...">>]

\* mutant: the interactive branch without its check of the list's length
interactivePrepAnyLength(S, rnd) ==
    IF S.isSpinning THEN S
    ELSE StartSession(S, selectNameIndex(S, rnd.name))

\* mutant: the interactive branch without its isSpinning check
interactivePrepNoSpinCheck(S, rnd) ==
    IF Len(S.names) < 2 THEN showToast(S, <<"Need at least 2 names.">>)
    ELSE StartSession(S, selectNameIndex(S, rnd.name))

\* handleDraw(), "Interactive Mode Prep" (lines 248-259)
interactivePrep(S, rnd) ==
    IF Len(S.names) < 2 THEN showToast(S, <<"Need at least 2 names.">>)
    ELSE IF S.isSpinning THEN S
    ELSE StartSession(S, selectNameIndex(S, rnd.name))

\* handleDraw(), "Single / Paired" (lines 261-277)
singleOrPairedDraw(S, rnd) ==
    LET sel == selectNameIndex(S, rnd.name)
    IN  IF sel.idx = -1 THEN sel.S
        ELSE
            LET name == S.names[sel.idx + 1]
            IN  IF S.mode = "paired"
                THEN IF Len(S.tasks) = 0
                     THEN showToast(sel.S, <<"Add tasks for paired mode.">>)
                     ELSE
                        LET t == selectTask(sel.S, rnd.task)
                            result == <<name, " is assigned to: ", t.task>>
                        IN  triggerResultAnimation(
                                [logHistory(t.S, S, result, <<>>, rnd.id)
                                    EXCEPT !.resultCardText = result])
                ELSE triggerResultAnimation(
                        [logHistory(sel.S, S, <<name>>, <<>>, rnd.id)
                            EXCEPT !.resultCardText = <<name>>])

\* mutant: handleDraw without its check of an empty list
handleDrawNoEmptyCheck(S, rnd) ==
    IF S.mode = "groups" THEN groupsDraw(S, rnd)
    ELSE IF S.mode = "interactive" THEN interactivePrep(S, rnd)
    ELSE singleOrPairedDraw(S, rnd)

\* handleDraw(): rnd.name and rnd.task are the values of Math.random() in
\* selectNameIndex and selectTask, rnd.order the order the random sort leaves
handleDraw(S, rnd) ==
    IF Len(S.names) = 0 THEN showToast(S, <<"Add names first.">>)
    ELSE IF S.mode = "groups" THEN groupsDraw(S, rnd)
    ELSE IF S.mode = "interactive" THEN interactivePrep(S, rnd)
    ELSE singleOrPairedDraw(S, rnd)

\* mutant: the completion finalizes the first name of the list
handleInteractiveEndFirstName(S, C, id) ==
    IF C.currentWinner = NoWinner THEN S
    ELSE triggerResultAnimation(
            [logHistory(S, C, <<S.names[1]>>, <<>>, id) EXCEPT
                !.isSpinning = FALSE,
                !.resultCardText = <<S.names[1]>>])

\* handleInteractiveEnd() of the render that closed over C (its currentWinner,
\* state.history, state.mode), run on the current state S
handleInteractiveEnd(S, C, id) ==
    IF C.currentWinner = NoWinner THEN S
    ELSE triggerResultAnimation(
            [logHistory(S, C, <<C.currentWinner.name>>, <<>>, id) EXCEPT
                !.isSpinning = FALSE,
                !.resultCardText = <<C.currentWinner.name>>])

\* what handleInteractiveEnd of a render closes over
Closure(S) == [currentWinner |-> S.currentWinner, history |-> S.history, mode |-> S.mode]

\* mutant: removeItem('names', index) that leaves the pool as it is
removeNameKeepsPool(S, index) == [S EXCEPT !.names = SpliceOut(S.names, index)]

\* removeItem('names', index)
removeName(S, index) ==
    LET list == SpliceOut(S.names, index)
    IN  [S EXCEPT !.names = list, !.availableNamesIndices = AllIndices(list)]

\* removeItem('tasks', index)
removeTask(S, index) ==
    LET list == SpliceOut(S.tasks, index)
    IN  [S EXCEPT !.tasks = list, !.availableTasksIndices = AllIndices(list)]

\* clearList(type)
clearList(S, type) ==
    IF type = "names"
    THEN [S EXCEPT !.names = <<>>, !.availableNamesIndices = <<>>, !.history = <<>>]
    ELSE [S EXCEPT !.tasks = <<>>, !.availableTasksIndices = <<>>]

\* shuffleNames(): shuffled is the order the Fisher-Yates loop leaves
shuffleNames(S, shuffled) ==
    showToast([S EXCEPT !.names = shuffled,
                        !.availableNamesIndices = AllIndices(shuffled),
                        !.history = <<>>],
              <<"Names shuffled & history cleared.">>)

\* addItems('names', value): items are the trimmed non-empty pieces of value
\* split at newlines and tabs
addNames(S, items) ==
    IF items = <<>> THEN S
    ELSE
        LET uniqueNewItems == SelectSeq(items, LAMBDA i : ~Includes(S.names, i))
            updatedList == S.names \o uniqueNewItems
        IN  IF Len(uniqueNewItems) > 0
            THEN showToast([S EXCEPT !.names = updatedList,
                                     !.availableNamesIndices = AllIndices(updatedList)],
                           <<ToString(Len(uniqueNewItems)), " item(s) added.">>)
            ELSE showToast(S, <<"Items already exist in the list.">>)

\* addItems('tasks', value): item is value.trim()
addTask(S, item) ==
    IF item = "" THEN S
    ELSE IF ~Includes(S.tasks, item)
    THEN LET updatedList == Append(S.tasks, item)
         IN  showToast([S EXCEPT !.tasks = updatedList,
                                 !.availableTasksIndices = AllIndices(updatedList)],
                       <<"1", " item(s) added.">>)
    ELSE showToast(S, <<"Items already exist in the list.">>)

\* mutant: the task pool is reset at every change of the checkbox
toggleTaskNoRepeatResets(S) ==
    resetAvailableTasks([S EXCEPT !.isTaskNoRepeat = ~S.isTaskNoRepeat])

\* the task no-repeat checkbox's onChange
toggleTaskNoRepeat(S) ==
    LET newVal == ~S.isTaskNoRepeat
        S1 == [S EXCEPT !.isTaskNoRepeat = newVal]
    IN  IF newVal THEN resetAvailableTasks(S1) ELSE S1

\* An input value is a sequence of tokens: words, blanks, newlines and tabs.
Whitespace == {" ", "\n", "\t"}

\* String.prototype.trim on a token sequence
RECURSIVE TrimStart(_)
TrimStart(v) == IF v # <<>> /\ Head(v) \in Whitespace THEN TrimStart(Tail(v)) ELSE v

RECURSIVE TrimEnd(_)
TrimEnd(v) ==
    IF v # <<>> /\ v[Len(v)] \in Whitespace THEN TrimEnd(SubSeq(v, 1, Len(v) - 1)) ELSE v

Trim(v) == TrimEnd(TrimStart(v))

\* the string a token sequence spells
RECURSIVE Join(_)
Join(v) == IF v = <<>> THEN "" ELSE Head(v) \o Join(Tail(v))

\* v without the newlines and tabs it starts with
RECURSIVE SkipSeparators(_)
SkipSeparators(v) ==
    IF v # <<>> /\ Head(v) \in {"\n", "\t"} THEN SkipSeparators(Tail(v)) ELSE v

\* value.split(/[\n\t]+/): the pieces between runs of newlines and tabs (a
\* run at the start or at the end of value leaves an empty piece there)
RECURSIVE SplitLines(_, _)
SplitLines(v, piece) ==
    IF v = <<>> THEN <<piece>>
    ELSE IF Head(v) \in {"\n", "\t"}
    THEN <<piece>> \o SplitLines(SkipSeparators(v), <<>>)
    ELSE SplitLines(Tail(v), Append(piece, Head(v)))

Digits == <<"0", "1", "2", "3", "4", "5", "6", "7", "8", "9">>

DigitValue(d) == CHOOSE n \in 0..9 : Digits[n + 1] = d

IsDigit(c) == \E n \in 1..10 : Digits[n] = c

\* the value of the decimal digits v starts with, acc that of those read
RECURSIVE LeadingDigits(_, _)
LeadingDigits(v, acc) ==
    IF v # <<>> /\ IsDigit(Head(v))
    THEN LeadingDigits(Tail(v), acc * 10 + DigitValue(Head(v)))
    ELSE acc

\* parseInt(value) on a sequence of characters: blanks, a sign and decimal
\* digits are read from the start, what follows is ignored; NaN (nan) when no
\* digit is found there
parseInt(value) ==
    LET v == TrimStart(value)
        signed == v # <<>> /\ Head(v) \in {"-", "+"}
        w == IF signed THEN Tail(v) ELSE v
    IN  IF w = <<>> \/ ~IsDigit(Head(w)) THEN [nan |-> TRUE, n |-> 0]
        ELSE [nan |-> FALSE,
              n |-> IF Head(v) = "-" THEN 0 - LeadingDigits(w, 0) ELSE LeadingDigits(w, 0)]

\* the groups input's onChange (line 463):
\* updateState({ numGroups: Math.max(1, parseInt(value) || 1) })
setNumGroups(S, value) ==
    LET parsed == parseInt(value)
    IN  [S EXCEPT !.numGroups = Max(1, IF parsed.nan \/ parsed.n = 0 THEN 1 ELSE parsed.n)]

\* addItems, lines 120-127: newItems for type and value
newItems(type, value) ==
    IF Trim(value) = <<>> THEN <<>>
    ELSE IF type = "names"
    THEN LET pieces == SplitLines(value, <<>>)
         IN  SelectSeq([i \in 1..Len(pieces) |-> Join(Trim(pieces[i]))],
                       LAMBDA item : item # "")
    ELSE <<Join(Trim(value))>>

\* addItems(type, value)
addItems(S, type, value) ==
    IF newItems(type, value) = <<>> THEN S
    ELSE IF type = "names" THEN addNames(S, newItems(type, value))
    ELSE addTask(S, newItems(type, value)[1])

\* the name no-repeat checkbox's onChange
toggleNameNoRepeat(S) ==
    LET newVal == ~S.isNameNoRepeat
        S1 == [S EXCEPT !.isNameNoRepeat = newVal]
    IN  IF newVal THEN resetAvailableNames(S1) ELSE S1

\* the Reset All Draws button's onClick
resetAllDraws(S) ==
    showToast([S EXCEPT !.history = <<>>,
                        !.availableNamesIndices = AllIndices(S.names),
                        !.availableTasksIndices = AllIndices(S.tasks)],
              <<"All pools and history reset.">>)


\* ------------------------------------------------------------- simulators

\* the simulator App renders: {state.mode === 'interactive' && ...} and the
\* four {state.interactiveMode === ... && <...>} branches
Mounted(S) == IF S.mode = "interactive" THEN S.interactiveMode ELSE "none"

\* Number.NaN as a rotation (rotations are otherwise >= 0)
NaN == 0 - 1

\* DuckRace: positions are in units of 1 / PosUnit px (speeds in 1 / (20 *
\* RandomUnits) px/s, wobble factors in 20ths, frame times in 20ths of a second)
PosUnit == 8000 * RandomUnits

NoRace ==
    [sim |-> "none", racers |-> <<>>, winnerDeclared |-> FALSE, started |-> FALSE,
     elapsed |-> 0, lastElapsed |-> 0, finishLineX |-> 0, winnerName |-> "",
     closure |-> Closure(DefaultState(<<>>)), sid |-> 0]

\* the state of the mounted simulator and of the host's queues
SimRec ==
    [timers |-> timers, raf |-> raf, step |-> step, rotation |-> rotation,
     lastRotation |-> lastRotation, race |-> race]

SetSim(T) ==
    /\ timers' = T.timers
    /\ raf' = T.raf
    /\ step' = T.step
    /\ rotation' = T.rotation
    /\ lastRotation' = T.lastRotation
    /\ race' = T.race

\* setTimeout(callback, delay): live is a history flag, cleared when the
\* simulator that set the timer is torn down
Timer(kind, delay, closure, sid, rot) ==
    [kind |-> kind, due |-> delay, closure |-> closure, sid |-> sid,
     rot |-> rot, live |-> TRUE]

\* The numbers of the wheel's arithmetic are IEEE 754 doubles. A double
\* x >= 0 below 2^15 is held exactly as five digits of base 2^15, the least
\* significant first: x = d[5] + d[4] / 2^15 + d[3] / 2^30 + d[2] / 2^45 +
\* d[1] / 2^60. Sums, differences and remainders of such numbers are formed
\* exactly and then rounded to 53 significant bits (round to nearest, ties
\* to even), as the processor does.
LimbBase == 2 ^ 15

FromInt(i) == <<0, 0, 0, 0, i>>

\* a < b
DLess(a, b) == \E k \in 1..5 : a[k] < b[k] /\ \A j \in (k + 1)..5 : a[j] = b[j]

\* a + b, exact
DAdd(a, b) ==
    LET c1 == a[1] + b[1]
        c2 == a[2] + b[2] + c1 \div LimbBase
        c3 == a[3] + b[3] + c2 \div LimbBase
        c4 == a[4] + b[4] + c3 \div LimbBase
        c5 == a[5] + b[5] + c4 \div LimbBase
    IN  <<c1 % LimbBase, c2 % LimbBase, c3 % LimbBase, c4 % LimbBase, c5>>

\* a - b for a >= b, exact
DSub(a, b) ==
    LET c1 == a[1] - b[1]
        c2 == a[2] - b[2] + c1 \div LimbBase
        c3 == a[3] - b[3] + c2 \div LimbBase
        c4 == a[4] - b[4] + c3 \div LimbBase
        c5 == a[5] - b[5] + c4 \div LimbBase
    IN  <<c1 % LimbBase, c2 % LimbBase, c3 % LimbBase, c4 % LimbBase, c5>>

\* a * k for an integer k >= 0, exact
DTimes(a, k) ==
    LET c1 == a[1] * k
        c2 == a[2] * k + c1 \div LimbBase
        c3 == a[3] * k + c2 \div LimbBase
        c4 == a[4] * k + c3 \div LimbBase
        c5 == a[5] * k + c4 \div LimbBase
    IN  <<c1 % LimbBase, c2 % LimbBase, c3 % LimbBase, c4 % LimbBase, c5>>

\* a / 2 (exact: the last bit of the doubles halved here is 0)
DHalf(a) ==
    LET c5 == a[5]
        c4 == (c5 % 2) * LimbBase + a[4]
        c3 == (c4 % 2) * LimbBase + a[3]
        c2 == (c3 % 2) * LimbBase + a[2]
        c1 == (c2 % 2) * LimbBase + a[1]
    IN  <<c1 \div 2, c2 \div 2, c3 \div 2, c4 \div 2, c5 \div 2>>

\* a % 360 (the remainder is exact)
DMod360(a) == [a EXCEPT ![5] = @ % 360]

\* the position of the leading bit of i > 0
TopBit(i) == CHOOSE p \in 0..14 : 2 ^ p <= i /\ i < 2 ^ (p + 1)

\* x rounded to 53 significant bits; inexact: x is the truncation of a
\* number that lies above it by less than 2^-60
Round53(x, inexact) ==
    LET k == IF x[5] > 0 THEN TopBit(x[5]) + 8
             ELSE IF x[4] > 0 THEN TopBit(x[4]) - 7
             ELSE 0
    IN  IF k <= 0 THEN x
        ELSE
            LET low == x[1] + LimbBase * x[2]
                r == low % (2 ^ k)
                half == 2 ^ (k - 1)
                odd == (low \div (2 ^ k)) % 2 = 1
                down == [x EXCEPT ![1] = (low - r) % LimbBase,
                                  ![2] = (low - r) \div LimbBase]
                ulp == IF k < 15 THEN <<2 ^ k, 0, 0, 0, 0>>
                       ELSE <<0, 2 ^ (k - 15), 0, 0, 0>>
            IN  IF r > half \/ (r = half /\ (inexact \/ odd))
                THEN DAdd(down, ulp)
                ELSE down

\* p / n for integers p >= 0 and n >= 1, as a double
DQuotient(p, n) ==
    LET r5 == p % n
        r4 == (r5 * LimbBase) % n
        r3 == (r4 * LimbBase) % n
        r2 == (r3 * LimbBase) % n
        r1 == (r2 * LimbBase) % n
    IN  Round53(<<(r2 * LimbBase) \div n, (r3 * LimbBase) \div n,
                  (r4 * LimbBase) \div n, (r5 * LimbBase) \div n, p \div n>>,
                r1 # 0)

\* SpinWheel, line 22 and effect lines 29-35: minRotationDelta for n >= 1
\* segments from the baseline last (lastRotation, a double)
MinRotationDelta(last, winnerIndex, n) ==
    LET segmentAngle == DQuotient(360, n)
        Ac == Round53(DAdd(Round53(DTimes(segmentAngle, winnerIndex), FALSE),
                           DHalf(segmentAngle)), FALSE)
        L == Ac
        V == DMod360(last)
        \* L - V + 360, the difference rounded before 360 is added
        sum == IF DLess(L, V)
               THEN Round53(DSub(FromInt(360), Round53(DSub(V, L), FALSE)), FALSE)
               ELSE Round53(DAdd(Round53(DSub(L, V), FALSE), FromInt(360)), FALSE)
        minRotationDelta == DMod360(sum)
    IN  IF DLess(minRotationDelta, FromInt(1))
        THEN Round53(DAdd(minRotationDelta, FromInt(360)), FALSE)
        ELSE minRotationDelta

\* SpinWheel effect, lines 37-38: newTotalRotation as a double
RotationAfter(last, winnerIndex, n) ==
    LET fullSpins == 5
        rotationDelta == Round53(DAdd(MinRotationDelta(last, winnerIndex, n),
                                      FromInt(360 * fullSpins)), FALSE)
    IN  Round53(DAdd(last, rotationDelta), FALSE)

\* SpinWheel, line 22 and effect lines 29-38: newTotalRotation in degrees
\* for a whole baseline and the list sizes 1..6, where segmentAngle, its
\* half and with them every double of the computation is a whole number, so
\* that no operation rounds; n = 0 gives segmentAngle = Infinity and NaN
NewTotalRotation(last, winnerIndex, n) ==
    IF n = 0 \/ last = NaN THEN NaN
    ELSE
        LET segmentAngle == 360 \div n
            Ac == winnerIndex * segmentAngle + segmentAngle \div 2
            V == last % 360
            d == (Ac - V + 360) % 360
            minRotationDelta == IF d < 1 THEN d + 360 ELSE d
            fullSpins == 5
        IN  last + minRotationDelta + 360 * fullSpins

\* mutant: the loop keeps the speed of the last non-winner instead of the
\* greatest one
DuckSpeedsLastNonWinner(list, winnerName, u) ==
    LET base(i) == 20 * (u[i] * (200 - 120) + 120 * RandomUnits)
        nonWinners == {i \in 1..Len(list) : list[i] # winnerName}
        maxNonWinnerSpeed ==
            IF nonWinners = {} THEN 20 * 120 * RandomUnits
            ELSE base(CHOOSE l \in nonWinners : \A i \in nonWinners : i <= l)
    IN  [i \in 1..Len(list) |->
            IF list[i] = winnerName THEN (maxNonWinnerSpeed * 23) \div 20 ELSE base(i)]

\* DuckRace effect, lines 161-186: the ducks; u[i] is the value of
\* Math.random() for duck i, speeds in units of 1 / (20 * RandomUnits) px/s
DuckSpeeds(list, winnerName, u) ==
    LET base(i) == 20 * (u[i] * (200 - 120) + 120 * RandomUnits)
        nonWinners == {i \in 1..Len(list) : list[i] # winnerName}
        maxNonWinnerSpeed ==
            IF nonWinners = {} THEN 20 * 120 * RandomUnits
            ELSE CHOOSE m \in {base(i) : i \in nonWinners} :
                    \A i \in nonWinners : base(i) <= m
    IN  [i \in 1..Len(list) |->
            IF list[i] = winnerName THEN (maxNonWinnerSpeed * 23) \div 20 ELSE base(i)]


\* CardDraw effect, lines 68-90 (it returns no cleanup)
CardEffect(S, T, sid) ==
    IF S.isSpinning /\ S.currentWinner.name # ""
    THEN [T EXCEPT !.step = "shuffling",
                   !.timers = @ \o <<Timer("picking", 2000, Closure(S), sid, 0),
                                     Timer("revealed", 3000, Closure(S), sid, 0),
                                     Timer("cardEnd", 5000, Closure(S), sid, 0)>>]
    ELSE [T EXCEPT !.step = "idle"]

\* SpinWheel effect, lines 24-53
WheelEffect(S, T, sid) ==
    IF S.isSpinning /\ S.currentWinner # NoWinner
    THEN LET newTotalRotation ==
                NewTotalRotation(T.lastRotation, S.currentWinner.index, Len(S.names))
         IN  [T EXCEPT !.rotation = newTotalRotation,
                       !.timers = @ \o <<Timer("spinEnd", 6000, Closure(S), sid, newTotalRotation)>>]
    ELSE T

\* DuckRace effect, lines 143-190 and 332: in.u[i] is Math.random() for duck i,
\* in.finishLineX the finish line (px) the container's width gives; x starts
\* at START_X = 50
DuckEffect(S, T, sid, in) ==
    IF S.isSpinning /\ S.currentWinner.name # ""
    THEN LET speeds == DuckSpeeds(S.names, S.currentWinner.name, in.u)
         IN  [T EXCEPT
                !.race = [sim |-> "race",
                          racers |-> [i \in 1..Len(S.names) |->
                                        [name |-> S.names[i],
                                         isWinner |-> S.names[i] = S.currentWinner.name,
                                         pace |-> speeds[i],
                                         pos |-> 50 * PosUnit]],
                          winnerDeclared |-> FALSE, started |-> FALSE,
                          elapsed |-> 0, lastElapsed |-> 0,
                          finishLineX |-> in.finishLineX * PosUnit,
                          winnerName |-> S.currentWinner.name,
                          closure |-> Closure(S), sid |-> sid],
                !.raf = TRUE]
    ELSE T

\* mutant: the ternary's branches exchanged
MarbleDurationSwapped(isWinner, u) ==
    IF isWinner THEN (3000 + 500) * RandomUnits + u * 1500 ELSE 3000 * RandomUnits

\* MarbleRace line 54: isWinner ? BASE_DURATION : BASE_DURATION + 500 +
\* Math.random() * 1500, in units of 1 / RandomUnits ms
MarbleDuration(isWinner, u) ==
    IF isWinner THEN 3000 * RandomUnits ELSE (3000 + 500) * RandomUnits + u * 1500

\* MarbleRace effect, lines 28-68 and 165: durations in units of
\* 1 / RandomUnits ms; pos is the progress min(1, elapsed / duration) of the
\* last frame, as the fraction num / den
MarbleEffect(S, T, sid, in) ==
    IF S.isSpinning /\ S.currentWinner.name # ""
    THEN [T EXCEPT
            !.race = [sim |-> "marble",
                      racers |-> [i \in 1..Len(S.names) |->
                                    [name |-> S.names[i],
                                     isWinner |-> S.names[i] = S.currentWinner.name,
                                     pace |-> MarbleDuration(S.names[i] = S.currentWinner.name,
                                                             in.u[i]),
                                     pos |-> [num |-> 0, den |-> 1]]],
                      winnerDeclared |-> FALSE, started |-> FALSE,
                      elapsed |-> 0, lastElapsed |-> 0, finishLineX |-> 0,
                      winnerName |-> S.currentWinner.name,
                      closure |-> Closure(S), sid |-> sid],
            !.raf = TRUE]
    ELSE T

\* mutant: SpinWheel's effect returns no cleanup
CleanupKeepsTimer(sim, T) ==
    IF sim \in {"race", "marble"}
    THEN [T EXCEPT !.raf = FALSE, !.race = NoRace]
    ELSE T

\* the cleanup an effect run returned: SpinWheel line 49 (clearTimeout),
\* DuckRace lines 334-336 and MarbleRace lines 167-169 (cancelAnimationFrame);
\* CardDraw has none
Cleanup(sim, T) ==
    IF sim = "wheel"
    THEN [T EXCEPT !.timers = SelectSeq(@, LAMBDA t : t.kind # "spinEnd")]
    ELSE IF sim \in {"race", "marble"}
    THEN [T EXCEPT !.raf = FALSE, !.race = NoRace]
    ELSE T

\* React unmounts the simulator: its useState cells are gone, and the timers
\* it left behind belong to no mounted component
Unmount(T) ==
    [T EXCEPT !.timers = [i \in DOMAIN @ |-> [@[i] EXCEPT !.live = FALSE]],
              !.step = "idle", !.rotation = 0, !.lastRotation = 0]

RunEffect(sim, S, T, sid, in) ==
    IF sim = "card" THEN CardEffect(S, T, sid)
    ELSE IF sim = "wheel" THEN WheelEffect(S, T, sid)
    ELSE IF sim = "race" THEN DuckEffect(S, T, sid, in)
    ELSE MarbleEffect(S, T, sid, in)

\* a render of App with state new after one with state old: every render
\* passes a new handleInteractiveEnd, a dependency of each simulator's effect,
\* so the mounted simulator's effect is cleaned up and run again
Effects(old, new, T, sid, in) ==
    LET m0 == Mounted(old)
        m1 == Mounted(new)
        T1 == IF m0 = "none" THEN T ELSE Cleanup(m0, T)
        T2 == IF m0 # m1 THEN Unmount(T1) ELSE T1
    IN  IF m1 = "none" THEN T2 ELSE RunEffect(m1, new, T2, sid, in)


\* ------------------------------------------------------------------ actions

\* App renders with state new, the simulators and queues being T: the state
\* is committed and the mounted simulator's effect runs
RenderFrom(new, T, in) ==
    LET sid == IF new.isSpinning /\ ~isSpinning THEN sessionId + 1 ELSE sessionId
        T1 == Effects(AppRec, new, T, sid, in)
    IN  /\ sid <= MaxSessions
        /\ Len(T1.timers) <= MaxTimers
        /\ SetApp(new)
        /\ SetSim(T1)
        /\ sessionId' = sid

Render(new, in) == RenderFrom(new, SimRec, in)

\* the DRAW button (lines 474-480), disabled while names is empty or
\* isSpinning, and the fullscreen one (lines 559-575), rendered in fullscreen
\* while not isSpinning; onClick is handleDraw
ClickDraw(rnd, in) ==
    /\ ~isSpinning
    /\ Len(names) # 0 \/ (mode = "interactive" /\ isFullscreen)
    /\ LET new == handleDraw(AppRec, rnd)
       IN  IF new = AppRec
           THEN UNCHANGED <<appVars, timers, raf, step, rotation, lastRotation, race, sessionId>>
           ELSE Render(new, in)
    /\ UNCHANGED <<endCalls, lateCall, probe>>

\* a mode button: updateState({ mode: m })
SetMode(m, in) ==
    /\ Render([AppRec EXCEPT !.mode = m], in)
    /\ UNCHANGED <<endCalls, lateCall, probe>>

\* a visualization button (lines 501-508), rendered in interactive mode and
\* disabled while isSpinning
SetInteractiveMode(v, in) ==
    /\ mode = "interactive"
    /\ ~isSpinning
    /\ Render([AppRec EXCEPT !.interactiveMode = v], in)
    /\ UNCHANGED <<endCalls, lateCall, probe>>

\* the fullscreen button (lines 512-518), rendered in interactive mode
ToggleFullscreen(in) ==
    /\ mode = "interactive"
    /\ Render([AppRec EXCEPT !.isFullscreen = ~isFullscreen], in)
    /\ UNCHANGED <<endCalls, lateCall, probe>>

\* triggerResultAnimation's setTimeout(() => setShowResultCard(true), 50)
\* fires
ShowResult(in) ==
    /\ resultTimer
    /\ Render([AppRec EXCEPT !.showResultCard = TRUE, !.resultTimer = FALSE], in)
    /\ UNCHANGED <<endCalls, lateCall, probe>>

\* the Escape key (handleEsc, lines 92-97): setIsFullscreen(false) in every
\* mode; a state set to the value it has renders nothing
PressEscape(in) ==
    /\ isFullscreen
    /\ Render([AppRec EXCEPT !.isFullscreen = FALSE], in)
    /\ UNCHANGED <<endCalls, lateCall, probe>>

\* the promise of copyHistory's clipboard.writeText resolves (lines 304-309)
CopyHistory(in) ==
    /\ LET new == showToast(AppRec, <<"Copied to clipboard!">>)
       IN  IF new = AppRec
           THEN UNCHANGED <<appVars, timers, raf, step, rotation, lastRotation, race, sessionId>>
           ELSE Render(new, in)
    /\ UNCHANGED <<endCalls, lateCall, probe>>

\* the Number of Groups input (lines 459-464), rendered in groups mode
SetNumGroups(value, in) ==
    /\ mode = "groups"
    /\ Render(setNumGroups(AppRec, value), in)
    /\ UNCHANGED <<endCalls, lateCall, probe>>

\* showToast's setTimeout(() => setTempMessage(null), 3000) fires
ToastExpire(in) ==
    /\ tempMessage # NoMessage
    /\ Render([AppRec EXCEPT !.tempMessage = NoMessage], in)
    /\ UNCHANGED <<endCalls, lateCall, probe>>

\* a row's remove button
RemoveName(index, in) ==
    /\ index \in 0..(Len(names) - 1)
    /\ Render(removeName(AppRec, index), in)
    /\ UNCHANGED <<endCalls, lateCall, probe>>

\* the Add Names button
AddNames(items, in) ==
    /\ LET new == addNames(AppRec, items)
       IN  IF new = AppRec
           THEN UNCHANGED <<appVars, timers, raf, step, rotation, lastRotation, race, sessionId>>
           ELSE Render(new, in)
    /\ UNCHANGED <<endCalls, lateCall, probe>>

\* a task row's remove button, in the tasks panel of paired mode
RemoveTask(index, in) ==
    /\ mode = "paired"
    /\ index \in 0..(Len(tasks) - 1)
    /\ Render(removeTask(AppRec, index), in)
    /\ UNCHANGED <<endCalls, lateCall, probe>>

\* the Clear All button of the names panel and the Clear Tasks button
ClearList(type, in) ==
    /\ type = "tasks" => mode = "paired"
    /\ Render(clearList(AppRec, type), in)
    /\ UNCHANGED <<endCalls, lateCall, probe>>

\* the Shuffle button
ShuffleNames(shuffled, in) ==
    /\ Render(shuffleNames(AppRec, shuffled), in)
    /\ UNCHANGED <<endCalls, lateCall, probe>>

\* the tasks panel's Add button (lines 430-432), rendered in paired mode
AddTask(item, in) ==
    /\ mode = "paired"
    /\ LET new == addTask(AppRec, item)
       IN  IF new = AppRec
           THEN UNCHANGED <<appVars, timers, raf, step, rotation, lastRotation, race, sessionId>>
           ELSE Render(new, in)
    /\ UNCHANGED <<endCalls, lateCall, probe>>

\* the tasks panel's No-Repeat checkbox (lines 442-446)
ToggleTaskNoRepeat(in) ==
    /\ mode = "paired"
    /\ Render(toggleTaskNoRepeat(AppRec), in)
    /\ UNCHANGED <<endCalls, lateCall, probe>>

\* the Add buttons of the names panel and of the tasks panel (the latter is
\* rendered in paired mode) with value typed into the input
AddItems(type, value, in) ==
    /\ type = "tasks" => mode = "paired"
    /\ LET new == addItems(AppRec, type, value)
       IN  IF new = AppRec
           THEN UNCHANGED <<appVars, timers, raf, step, rotation, lastRotation, race, sessionId>>
           ELSE Render(new, in)
    /\ UNCHANGED <<endCalls, lateCall, probe>>

ToggleNameNoRepeat(in) ==
    /\ Render(toggleNameNoRepeat(AppRec), in)
    /\ UNCHANGED <<endCalls, lateCall, probe>>

ResetAllDraws(in) ==
    /\ Render(resetAllDraws(AppRec), in)
    /\ UNCHANGED <<endCalls, lateCall, probe>>

\* d ms pass (d >= 500): no pending timer is overdue, the 50 ms timeout of
\* triggerResultAnimation among them, and an animation that has started sees
\* the host's clock advance
Tick(d, maxElapsed) ==
    /\ timers # <<>> \/ raf
    /\ ~resultTimer
    /\ \A i \in DOMAIN timers : timers[i].due >= d
    /\ race.started /\ raf => race.elapsed + d <= maxElapsed
    /\ timers' = [i \in DOMAIN timers |-> [timers[i] EXCEPT !.due = @ - d]]
    /\ race' = IF race.started /\ raf THEN [race EXCEPT !.elapsed = @ + d] ELSE race
    /\ UNCHANGED <<appVars, raf, step, rotation, lastRotation, sessionId, endCalls,
                   lateCall, probe>>

\* the timer the host runs next: the first created among those due
NextTimer == CHOOSE i \in DOMAIN timers :
                /\ timers[i].due = 0
                /\ \A j \in DOMAIN timers : timers[j].due = 0 => i <= j

\* a setTimeout callback runs: CardDraw lines 73-86, SpinWheel lines 43-47,
\* DuckRace line 326, MarbleRace line 156
FireTimer(in) ==
    /\ \E i \in DOMAIN timers : timers[i].due = 0
    /\ LET t == timers[NextTimer]
           rest == SpliceOut(timers, NextTimer - 1)
       IN  IF t.kind \in {"picking", "revealed"}
           THEN /\ step' = IF t.live THEN t.kind ELSE step
                /\ timers' = rest
                /\ UNCHANGED <<appVars, raf, rotation, lastRotation, race, sessionId,
                               endCalls, lateCall>>
           ELSE /\ RenderFrom(handleInteractiveEnd(AppRec, t.closure, 0),
                              [SimRec EXCEPT !.timers = rest,
                                             !.lastRotation =
                                                IF t.kind = "spinEnd" THEN t.rot ELSE @],
                              in)
                /\ endCalls' = [endCalls EXCEPT ![t.sid] = @ + 1]
                /\ lateCall' = (lateCall \/ ~t.live)
    /\ UNCHANGED probe


\* DuckRace animate, lines 281-330, run by the host as an animation frame;
\* wob[i] is 20 * (1 + wobble) for duck i, wobble = 0.15 * sin(timestamp / 1000
\* + duck.y / 5) (each duck has the phase its lane gives it)
AnimateDuck(wob) ==
    /\ raf
    /\ race.sim = "race"
    /\ ~race.started \/ race.elapsed > race.lastElapsed
    /\ LET elapsed == IF race.started THEN race.elapsed ELSE 0
           deltaTime == IF race.started THEN elapsed - race.lastElapsed ELSE 0
           moved == [i \in DOMAIN race.racers |->
                        LET d == race.racers[i]
                        IN  IF d.pos < race.finishLineX
                            THEN [d EXCEPT !.pos = Min(@ + d.pace * wob[i] * (deltaTime \div 50),
                                                      race.finishLineX)]
                            ELSE d]
           winnerCrossed == \E i \in DOMAIN moved :
                                moved[i].isWinner /\ moved[i].pos >= race.finishLineX
           declare == winnerCrossed /\ elapsed >= 3000
       IN  IF race.winnerDeclared
           THEN /\ raf' = FALSE
                /\ race' = [race EXCEPT !.started = TRUE, !.lastElapsed = elapsed]
                /\ UNCHANGED timers
           ELSE /\ raf' = TRUE
                /\ race' = [race EXCEPT !.started = TRUE, !.lastElapsed = elapsed,
                                        !.racers = moved, !.winnerDeclared = declare]
                /\ timers' = IF declare
                             THEN timers \o <<Timer("raceEnd", 2000, race.closure, race.sid, 0)>>
                             ELSE timers
                /\ Len(timers') <= MaxTimers
    /\ UNCHANGED <<appVars, step, rotation, lastRotation, sessionId, endCalls, lateCall, probe>>

\* Math.min(1, elapsed / m.duration) as a fraction; duration in 1 / RandomUnits ms
Progress(elapsed, duration) ==
    IF elapsed * RandomUnits >= duration
    THEN [num |-> 1, den |-> 1]
    ELSE [num |-> elapsed * RandomUnits, den |-> duration]

\* p >= q for fractions with positive denominators
FracGeq(p, q) == p.num * q.den >= q.num * p.den

\* MarbleRace animate, lines 70-163, run by the host as an animation frame
AnimateMarble ==
    /\ raf
    /\ race.sim = "marble"
    /\ ~race.started \/ race.elapsed > race.lastElapsed
    /\ LET elapsed == IF race.started THEN race.elapsed ELSE 0
           moved == [i \in DOMAIN race.racers |->
                        [race.racers[i] EXCEPT !.pos = Progress(elapsed, race.racers[i].pace)]]
           declare == ~race.winnerDeclared /\ elapsed >= 3000 + 500
           winnerDeclared == race.winnerDeclared \/ declare
       IN  /\ race' = [race EXCEPT !.started = TRUE, !.lastElapsed = elapsed,
                                   !.racers = IF race.winnerDeclared THEN @ ELSE moved,
                                   !.winnerDeclared = winnerDeclared]
           /\ timers' = IF declare
                        THEN timers \o <<Timer("raceEnd", 2000, race.closure, race.sid, 0)>>
                        ELSE timers
           /\ Len(timers') <= MaxTimers
           /\ raf' = (~winnerDeclared \/ elapsed < 3000 + 3000)
    /\ UNCHANGED <<appVars, step, rotation, lastRotation, sessionId, endCalls, lateCall, probe>>

\* ------------------------------------------------- specification: the pools
\* Single draws on a list restored at mount (the default list cut to its
\* first names), with the no-repeat switch, removals and Reset All Draws.

\* nothing random matters to a render that starts no race
NoRaceInput == [u |-> [i \in 1..MaxNames |-> 0], finishLineX |-> 0]

RandomValues == 0..(RandomUnits - 1)

InitApp(S) ==
    /\ names = S.names
    /\ tasks = S.tasks
    /\ history = S.history
    /\ isNameNoRepeat = S.isNameNoRepeat
    /\ availableNamesIndices = S.availableNamesIndices
    /\ isTaskNoRepeat = S.isTaskNoRepeat
    /\ availableTasksIndices = S.availableTasksIndices
    /\ mode = S.mode
    /\ interactiveMode = S.interactiveMode
    /\ numGroups = S.numGroups
    /\ isSpinning = S.isSpinning
    /\ currentWinner = S.currentWinner
    /\ tempMessage = S.tempMessage
    /\ resultCardText = S.resultCardText
    /\ isFullscreen = S.isFullscreen
    /\ showResultCard = S.showResultCard
    /\ resultTimer = S.resultTimer

InitSim ==
    /\ timers = <<>>
    /\ raf = FALSE
    /\ step = "idle"
    /\ rotation = 0
    /\ lastRotation = 0
    /\ race = NoRace
    /\ sessionId = 0
    /\ endCalls = [s \in 1..MaxSessions |-> 0]
    /\ lateCall = FALSE

InitPool ==
    /\ \E n \in 1..MaxNames : InitApp(DefaultState(SubSeq(Roster, 1, n)))
    /\ InitSim
    /\ probe = 0

NextPool ==
    \/ \E u \in RandomValues :
        /\ Len(history) < MaxLog
        /\ ClickDraw([name |-> u, task |-> 0, order |-> names, id |-> 0], NoRaceInput)
    \/ ToggleNameNoRepeat(NoRaceInput)
    \/ \E i \in 0..(MaxNames - 1) : RemoveName(i, NoRaceInput)
    \/ ResetAllDraws(NoRaceInput)
    \/ ToastExpire(NoRaceInput)
    \/ ShowResult(NoRaceInput)
    \/ CopyHistory(NoRaceInput)

SpecPool == InitPool /\ [][NextPool]_vars


\* C1: with name no-repeat on, the draws accepted since the pool last held
\* every index (the Len(names) - Len(pool) most recent history entries: any
\* list mutation, reset or switch refills the pool) selected pairwise
\* different indices, exactly those missing from the pool; so n draws on a
\* full pool of n select every index once before any is selected again.
C1_NoRepeatVisitsAll ==
    isNameNoRepeat =>
        LET pool == FilterValid(availableNamesIndices, names)
            k == Len(names) - Len(pool)
            undrawn == Range(pool)
            drawn == (0..(Len(names) - 1)) \ undrawn
        IN  /\ Cardinality(undrawn) = Len(pool)
            /\ k <= Len(history)
            /\ {history[j].result : j \in 1..k} = {<<names[i + 1]>> : i \in drawn}
            /\ Cardinality({history[j].result : j \in 1..k}) = k

\* three no-repeat draws on a pool of three emptied it
C1_Witness ==
    /\ isNameNoRepeat
    /\ Len(names) >= 3
    /\ availableNamesIndices = <<>>
    /\ Len(history) >= Len(names)
    /\ Cardinality({history[j].result : j \in 1..Len(names)}) = Len(names)


\* ------------------------------------------------ specification: the history
\* logHistory applied MaxAppends times to an empty log; probe counts the
\* appends and is the id (Date.now()) of the entry appended.

DrawModes == {"single", "paired", "groups", "interactive"}

InitHistory ==
    /\ \E n \in 1..MaxNames, m \in DrawModes :
            InitApp([DefaultState(SubSeq(Roster, 1, n)) EXCEPT !.mode = m])
    /\ InitSim
    /\ probe = 0

LogEntry ==
    /\ probe < MaxAppends
    /\ probe' = probe + 1
    /\ SetApp(logHistory(AppRec, AppRec, <<names[(probe % Len(names)) + 1]>>, <<>>, probe + 1))
    /\ UNCHANGED simVars

NextHistory == LogEntry

SpecHistory == InitHistory /\ [][NextHistory]_vars

\* C9: after k appends to an empty log the history holds the min(k, 50) most
\* recent entries, most recent first (entry i is the (k - i + 1)-th appended):
\* an append puts the new entry before the old ones and cuts to 50; after 51
\* appends the first entry is the 51st appended and the last the 2nd.
C9_HistoryAppend ==
    /\ Len(history) = Min(probe, 50)
    /\ \A i \in 1..Len(history) : history[i].id = probe - i + 1
    /\ probe = 51 => Len(history) = 50 /\ history[1].id = 51 /\ history[50].id = 2

\* 51 entries were appended, the first one was evicted
C9_Witness == probe = 51 /\ Len(history) = 50 /\ history[50].id = 2

\* ------------------------------------------------- specification: the groups
\* One groups draw on the default list cut to its first n names, for every
\* persisted group count (0 and n + 1 included) and every order the random
\* sort can leave.

InitGroups ==
    /\ \E n \in 1..MaxGroupNames, k \in 0..(MaxGroupNames + 1) :
            InitApp([DefaultState(SubSeq(Roster, 1, n)) EXCEPT !.mode = "groups",
                                                                !.numGroups = k])
    /\ InitSim
    /\ probe = 0

GroupInputs == {<<>>, <<"0">>, <<"1">>, <<"3">>, <<"-", "2">>, <<"2", ".", "5">>}

NextGroups ==
    \/ \E order \in Shuffles(names) :
        /\ history = <<>>
        /\ ClickDraw([name |-> 0, task |-> 0, order |-> order, id |-> 0], NoRaceInput)
    \/ \E value \in GroupInputs :
        /\ history = <<>>
        /\ SetNumGroups(value, NoRaceInput)
    \/ ToastExpire(NoRaceInput)
    \/ ShowResult(NoRaceInput)

SpecGroups == InitGroups /\ [][NextGroups]_vars

RECURSIVE Flatten(_)
Flatten(groups) == IF groups = <<>> THEN <<>> ELSE Head(groups) \o Flatten(Tail(groups))

\* C10: a groups draw that logs an entry (k >= 1 groups on n >= k names) logs
\* exactly k groups whose sizes differ by at most 1 and which hold every name
\* of the list exactly once; 5 names in 2 groups give the sizes 3 and 2.
C10_GroupsBalanced ==
    [][history' # history /\ history' # <<>> =>
        LET g == history'[1].groups
            flat == Flatten(g)
        IN  /\ Len(names) >= numGroups
            /\ Len(g) = numGroups
            /\ \A a, b \in 1..Len(g) : Len(g[a]) - Len(g[b]) <= 1
            /\ Len(flat) = Len(names)
            /\ Range(flat) = Range(names)
            /\ Len(names) = 5 /\ numGroups = 2 => {Len(g[1]), Len(g[2])} = {3, 2}]_vars

\* five names were split into a group of three and one of two
C10_Witness ==
    /\ history # <<>>
    /\ Len(names) = 5
    /\ Len(history[1].groups) = 2
    /\ Len(history[1].groups[1]) = 3
    /\ Len(history[1].groups[2]) = 2


\* C11: a groups draw with fewer than 1 group or with more groups than names
\* produces nothing: the history, the result card and both pools stay as
\* they are.
C11_GroupsGuards ==
    [][(numGroups < 1 \/ numGroups > Len(names)) =>
            /\ history' = history
            /\ resultCardText' = resultCardText
            /\ availableNamesIndices' = availableNamesIndices
            /\ availableTasksIndices' = availableTasksIndices]_vars

\* a groups draw with more groups than names has been refused
C11_Witness ==
    /\ mode = "groups"
    /\ numGroups > Len(names)
    /\ tempMessage = <<"Need at least ", ToString(numGroups), " names.">>
    /\ history = <<>>

\* -------------------------------------------------- specification: the wheel
\* Interactive draws on the wheel, with names removed and added at any time.

\* Draw requests on a list of 0..MaxNames names: every mode on the empty list
\* (only the fullscreen button is enabled there), single, paired (no task has
\* been added) and interactive (the wheel) on a non-empty one.
RequestInput(u) == [name |-> u, task |-> u, order |-> names, id |-> 0]

InitRequests ==
    /\ \E n \in 0..MaxNames, m \in DrawModes, nr \in BOOLEAN :
            /\ n > 0 => m # "groups"
            /\ InitApp([DefaultState(SubSeq(Roster, 1, n)) EXCEPT !.mode = m,
                                                                !.isNameNoRepeat = nr])
    /\ InitSim
    /\ probe = 0

NextRequests ==
    \/ \E u \in RandomValues :
        /\ Len(history) <= Len(names)
        /\ ClickDraw(RequestInput(u), NoRaceInput)
    \/ ToggleFullscreen(NoRaceInput)
    \/ Tick(6000, 0)
    \/ FireTimer(NoRaceInput)
    \/ ToastExpire(NoRaceInput)
    \/ ShowResult(NoRaceInput)
    \/ PressEscape(NoRaceInput)

SpecRequests == InitRequests /\ [][NextRequests]_vars

\* C12: on an empty name list a draw request fails in every mode and for
\* either value of the no-repeat flag, whatever Math.random() returns: it only
\* shows "Add names first."; no winner is selected, no session starts
\* (isSpinning and the result text keep their values), both pools and the
\* history are unchanged; selectNameIndex on its own returns null and changes
\* nothing.
C12_EmptyListFails ==
    Len(names) = 0 =>
        \A u \in RandomValues :
            LET new == handleDraw(AppRec, RequestInput(u))
                sel == selectNameIndex(AppRec, u)
            IN  /\ new.tempMessage = <<"Add names first.">>
                /\ new.currentWinner = currentWinner
                /\ new.isSpinning = isSpinning
                /\ new.resultCardText = resultCardText
                /\ new.availableNamesIndices = availableNamesIndices
                /\ new.availableTasksIndices = availableTasksIndices
                /\ new.history = history
                /\ sel.idx = -1
                /\ sel.S = AppRec

\* the fullscreen draw button was clicked on an empty list
C12_Witness ==
    /\ Len(names) = 0
    /\ isFullscreen
    /\ tempMessage = <<"Add names first.">>
    /\ ~isSpinning
    /\ history = <<>>


\* C13: a paired draw request on a non-empty name list with an empty task
\* list performs no draw: the name pool, the task pool and the history are the
\* same after the request as before it, for either value of the name
\* no-repeat flag.
C13_PairedNoTasksNoDraw ==
    [][(mode = "paired" /\ Len(names) # 0 /\ Len(tasks) = 0) =>
            /\ availableNamesIndices' = availableNamesIndices
            /\ availableTasksIndices' = availableTasksIndices
            /\ history' = history]_vars


PoolResetToast == <<"All names drawn! Resetting list.">>

ResultsOf(h) == {h[i].result : i \in 1..Len(h)}

\* C14: with names [John, Jane, Alice], name no-repeat on and mode single,
\* the first three draws yield three different names, a permutation of the
\* list, and leave the pool empty; the fourth request shows the pool reset
\* notification, refills the pool with every index and yields no name (result
\* text and history stay as they are); the request after it draws from the
\* full set again: each of the three names can be its result.
C14_ThreeDistinctThenReset ==
    (names = SubSeq(Roster, 1, 3) /\ isNameNoRepeat /\ mode = "single") =>
        /\ Len(history) < 3 =>
                /\ Len(availableNamesIndices) = 3 - Len(history)
                /\ Cardinality(ResultsOf(history)) = Len(history)
        /\ Len(history) = 3 =>
                /\ ResultsOf(history) = {<<n>> : n \in Range(names)}
                /\ \/ availableNamesIndices = <<>>
                   \/ /\ availableNamesIndices = AllIndices(names)
                      /\ tempMessage \in {PoolResetToast, NoMessage}
        /\ (Len(history) = 3 /\ availableNamesIndices = <<>>) =>
                \A u \in RandomValues :
                    LET fourth == handleDraw(AppRec, RequestInput(u))
                    IN  /\ fourth.tempMessage = PoolResetToast
                        /\ fourth.availableNamesIndices = AllIndices(names)
                        /\ fourth.history = history
                        /\ fourth.resultCardText = resultCardText
                        /\ {handleDraw(fourth, RequestInput(v)).resultCardText :
                                v \in RandomValues} = {<<n>> : n \in Range(names)}
                        /\ \A v \in RandomValues :
                                Len(handleDraw(fourth, RequestInput(v)).history) = 4

\* three draws, the reset request and one more draw have happened
C14_Witness ==
    /\ names = SubSeq(Roster, 1, 3)
    /\ isNameNoRepeat
    /\ mode = "single"
    /\ Len(history) = 4
    /\ Len(availableNamesIndices) = 2
    /\ tempMessage = PoolResetToast
    /\ ResultsOf(SubSeq(history, 2, 4)) = {<<n>> : n \in Range(names)}

\* C14 as stated: the fourth request itself, besides the pool reset
\* notification, draws a name from the full set.
C14_FourthDrawDraws ==
    (names = SubSeq(Roster, 1, 3) /\ isNameNoRepeat /\ mode = "single"
        /\ Len(history) = 3 /\ availableNamesIndices = <<>>) =>
        \A u \in RandomValues :
            LET fourth == handleDraw(AppRec, RequestInput(u))
            IN  /\ fourth.tempMessage = PoolResetToast
                /\ Len(fourth.history) = 4
                /\ fourth.resultCardText \in {<<n>> : n \in Range(names)}


\* C15: a request that reaches the name selection (single, paired, or
\* interactive with at least two names and no session running) with name
\* no-repeat on and no valid index left in the pool resets the pool to every
\* index of the list, shows the reset notification and is aborted: no winner,
\* no session, no history entry, no result text; the request after it selects
\* from the full pool (any index, which then is the one missing from it).
C15_ExhaustedPoolAborts ==
    (/\ isNameNoRepeat
     /\ Len(names) # 0
     /\ FilterValid(availableNamesIndices, names) = <<>>
     /\ ~isSpinning
     /\ mode \in {"single", "paired"} \/ (mode = "interactive" /\ Len(names) >= 2)) =>
        \A u \in RandomValues :
            LET aborted == handleDraw(AppRec, RequestInput(u))
            IN  /\ aborted.availableNamesIndices = AllIndices(names)
                /\ aborted.tempMessage = PoolResetToast
                /\ aborted.currentWinner = currentWinner
                /\ ~aborted.isSpinning
                /\ aborted.history = history
                /\ aborted.resultCardText = resultCardText
                /\ \A v \in RandomValues :
                        handleDraw(aborted, RequestInput(v)).availableNamesIndices
                            = SpliceOut(AllIndices(names), RandIndex(v, Len(names)))

\* both names were drawn by wheel sessions and the third request was aborted
C15_Witness ==
    /\ mode = "interactive"
    /\ isNameNoRepeat
    /\ ~isSpinning
    /\ Len(history) = Len(names)
    /\ tempMessage = PoolResetToast
    /\ availableNamesIndices = AllIndices(names)


\* Paired mode on two names: tasks are added, the task no-repeat flag is
\* switched, and draws are requested.
InitPaired ==
    /\ \E nr \in BOOLEAN :
            InitApp([DefaultState(SubSeq(Roster, 1, 2)) EXCEPT !.mode = "paired",
                                                                !.isNameNoRepeat = nr])
    /\ InitSim
    /\ probe = 0

NextPaired ==
    \/ \E u, v \in RandomValues :
        /\ Len(history) <= Len(tasks)
        /\ ClickDraw([name |-> u, task |-> v, order |-> names, id |-> 0], NoRaceInput)
    \/ \E i \in 1..MaxTasks :
        /\ history = <<>>
        /\ AddTask(TaskRoster[i], NoRaceInput)
    \/ /\ history = <<>>
       /\ ToggleTaskNoRepeat(NoRaceInput)
    \/ ToastExpire(NoRaceInput)
    \/ ShowResult(NoRaceInput)

SpecPaired == InitPaired /\ [][NextPaired]_vars

TaskResetToast == <<"All tasks assigned! Resetting task list.">>

\* C16: when a paired draw finds no valid index left in the no-repeat task
\* pool of a non-empty task list, selectTask shows the reset notification and
\* selects from the full list in the same call: it returns a task of the
\* list, and the pool it leaves holds exactly the indices of the other tasks;
\* a request whose name selection succeeds is completed with that task (one
\* history entry, the task in its result) and leaves that pool.
C16_TaskPoolRetry ==
    (/\ mode = "paired"
     /\ Len(names) # 0
     /\ Len(tasks) # 0
     /\ isTaskNoRepeat
     /\ FilterValid(availableTasksIndices, tasks) = <<>>) =>
        \A u, v \in RandomValues :
            LET t == selectTask(AppRec, v)
                sel == selectNameIndex(AppRec, u)
                new == handleDraw(AppRec, [name |-> u, task |-> v, order |-> names, id |-> 0])
            IN  /\ t.task \in Range(tasks)
                /\ t.S.tempMessage = TaskResetToast
                /\ Len(t.S.availableTasksIndices) = Len(tasks) - 1
                /\ \A i \in 0..(Len(tasks) - 1) :
                        Includes(t.S.availableTasksIndices, i) <=> tasks[i + 1] # t.task
                /\ sel.idx # -1 =>
                        /\ Len(new.history) = Len(history) + 1
                        /\ new.history[1].result
                                = <<names[sel.idx + 1], " is assigned to: ", t.task>>
                        /\ new.resultCardText = new.history[1].result
                        /\ new.availableTasksIndices = t.S.availableTasksIndices
                        /\ new.tempMessage = TaskResetToast

\* two tasks were assigned and the third request reset the pool and retried
C16_Witness ==
    /\ mode = "paired"
    /\ isTaskNoRepeat
    /\ Len(tasks) = 2
    /\ Len(history) = 3
    /\ tempMessage = TaskResetToast
    /\ Len(availableTasksIndices) = 1
    /\ tasks[availableTasksIndices[1] + 1] # history[1].result[3]


InitWheel ==
    /\ \E n \in 2..MaxNames :
            InitApp([DefaultState(SubSeq(Roster, 1, n)) EXCEPT !.mode = "interactive"])
    /\ InitSim
    /\ probe = 0

NextWheel ==
    \/ \E u \in RandomValues :
            ClickDraw([name |-> u, task |-> 0, order |-> names, id |-> 0], NoRaceInput)
    \/ \E i \in 0..(MaxNames - 1) : RemoveName(i, NoRaceInput)
    \/ \E i \in 1..MaxNames :
            /\ Len(names) < MaxNames
            /\ AddNames(<<Roster[i]>>, NoRaceInput)
    \/ Tick(3000, 0)
    \/ FireTimer(NoRaceInput)
    \/ ToastExpire(NoRaceInput)
    \/ ShowResult(NoRaceInput)

SpecWheel == InitWheel /\ [][NextWheel]_vars

\* C8: while the wheel spins a list of n >= 1 names towards winnerIndex < n,
\* the rotation it comes to rest at is congruent modulo 360 to the centre of
\* the winner's segment, winnerIndex * 360 / n + 180 / n.
C8_WheelLandsOnWinner ==
    (Mounted(AppRec) = "wheel" /\ isSpinning /\ Len(names) >= 1
        /\ currentWinner.index < Len(names)) =>
            /\ rotation # NaN
            /\ rotation % 360 =
                  (currentWinner.index * (360 \div Len(names)) + 180 \div Len(names)) % 360


\* ------------------------------------------- specification: the marble race
\* One marble race on a list of 2..MaxNames names, for every winner and every
\* value of Math.random() of each marble, the host running a frame at any
\* multiple of 500 ms.

RandomVectors == [1..MaxNames -> RandomValues]

InitMarble ==
    /\ \E n \in 2..MaxNames :
            InitApp([DefaultState(SubSeq(Roster, 1, n)) EXCEPT
                        !.mode = "interactive", !.interactiveMode = "marble"])
    /\ InitSim
    /\ probe = 0

NextMarble ==
    \/ /\ sessionId = 0
       /\ \E u \in RandomValues, us \in RandomVectors :
            ClickDraw([name |-> u, task |-> 0, order |-> names, id |-> 0],
                         [u |-> us, finishLineX |-> 0])
    \/ Tick(500, 6500)
    \/ AnimateMarble
    \/ FireTimer(NoRaceInput)
    \/ ShowResult(NoRaceInput)

SpecMarble == InitMarble /\ [][NextMarble]_vars

\* C6: at every frame of a marble race the winner's progress is at least every
\* other marble's, so no marble is at progress 1 before the winner is, and the
\* winner is at progress 1 when the winner is declared.
C6_MarbleWinnerAhead ==
    race.sim = "marble" =>
        \A w \in DOMAIN race.racers :
            race.racers[w].isWinner =>
                /\ \A i \in DOMAIN race.racers :
                        FracGeq(race.racers[w].pos, race.racers[i].pos)
                /\ race.winnerDeclared => race.racers[w].pos = [num |-> 1, den |-> 1]

\* a race of three marbles whose winner has been declared while another
\* marble is still on its way
C6_Witness ==
    /\ race.sim = "marble"
    /\ race.winnerDeclared
    /\ Len(race.racers) >= 3
    /\ \E i \in DOMAIN race.racers :
            /\ ~race.racers[i].isWinner
            /\ race.racers[i].pos.num > 0
            /\ race.racers[i].pos.num < race.racers[i].pos.den

\* --------------------------------------------- specification: the duck race
\* One duck race of MaxDucks ducks on a 300 px wide track (finish line at
\* 300 * 0.95 - 40 = 245 px), for every winner, every value of Math.random()
\* of each duck and every wobble factor of each duck in each frame, the host
\* running a frame at any multiple of 1000 ms.

MaxDucks == 2

\* 20 * (1 + wobble) for wobble = -0.15, 0, 0.15
WobbleFactors == {17, 20, 23}

InitDuck ==
    /\ InitApp([DefaultState(SubSeq(Roster, 1, MaxDucks)) EXCEPT
                    !.mode = "interactive", !.interactiveMode = "race"])
    /\ InitSim
    /\ probe = 0

NextDuck ==
    \/ /\ sessionId = 0
       /\ \E u \in RandomValues, us \in RandomVectors :
            ClickDraw([name |-> u, task |-> 0, order |-> names, id |-> 0],
                         [u |-> us, finishLineX |-> 245])
    \/ \E wob \in [1..MaxDucks -> WobbleFactors] : AnimateDuck(wob)
    \/ Tick(1000, 4000)
    \/ FireTimer(NoRaceInput)
    \/ ShowResult(NoRaceInput)

SpecDuck == InitDuck /\ [][NextDuck]_vars

\* C7: after every frame of a duck race, a duck that is not the winner is at
\* the finish line only if the winner is: no wobble sequence lets a non-winner
\* reach the finish line in an earlier frame than the winner.
C7_WobbleKeepsOrder ==
    race.sim = "race" =>
        \A i \in DOMAIN race.racers :
            (~race.racers[i].isWinner /\ race.racers[i].pos >= race.finishLineX) =>
                \E w \in DOMAIN race.racers :
                    race.racers[w].isWinner /\ race.racers[w].pos >= race.finishLineX


\* ---------------------------------------------- specification: the sessions
\* The app from its default state with the first two default names: the
\* mode buttons (a click on the selected one re-renders App), the
\* visualization buttons, the DRAW button in interactive mode, the host's
\* timers and animation frames.  Races run on a 300 px wide track with
\* Math.random() = 0 for every racer and no wobble, a frame at any multiple of
\* 1000 ms.

StillRaceInput == [u |-> [i \in 1..MaxNames |-> 0], finishLineX |-> 245]

NoWobble == [i \in 1..MaxNames |-> 20]

Init ==
    /\ InitApp(DefaultState(SubSeq(Roster, 1, 2)))
    /\ InitSim
    /\ probe = 0

Next ==
    \/ \E u \in RandomValues :
            /\ mode = "interactive"
            /\ ClickDraw([name |-> u, task |-> 0, order |-> names, id |-> 0], StillRaceInput)
    \/ \E m \in {"single", "interactive"} : SetMode(m, StillRaceInput)
    \/ \E v \in {"wheel", "race", "marble", "card"} : SetInteractiveMode(v, StillRaceInput)
    \/ Tick(1000, 6000)
    \/ FireTimer(StillRaceInput)
    \/ AnimateDuck(NoWobble)
    \/ AnimateMarble
    \/ ShowResult(StillRaceInput)

Spec == Init /\ [][Next]_vars


\* the pending timers that invoke the completion callback
EndKinds == {"cardEnd", "spinEnd", "raceEnd"}

\* C2: the completion callback is never invoked by a timer of a simulator
\* that has been torn down (unmounted by a mode or visualization switch)
\* since the timer was set.
C2_CanceledNeverCompletes == ~lateCall

\* C3: the completion callback is invoked at most once for each session, the
\* sessions being the accepted interactive draws.
C3_CompletionAtMostOnce == \A s \in 1..MaxSessions : endCalls[s] <= 1

\* C4: while a session runs in interactive mode, handleDraw for any value of
\* Math.random() changes neither isSpinning, the winner, the name pool, the
\* list nor the history.
C4_DrawWhileSpinningRejected ==
    (isSpinning /\ mode = "interactive") =>
        \A u \in RandomValues :
            LET new == handleDraw(AppRec, [name |-> u, task |-> 0, order |-> names, id |-> 0])
            IN  /\ new.isSpinning = isSpinning
                /\ new.currentWinner = currentWinner
                /\ new.availableNamesIndices = availableNamesIndices
                /\ new.names = names
                /\ new.history = history

\* a card session under way, its completion timer pending, in interactive mode
C4_Witness ==
    /\ isSpinning
    /\ mode = "interactive"
    /\ interactiveMode = "card"
    /\ step = "picking"
    /\ currentWinner.index \in 0..(Len(names) - 1)
    /\ \E i \in DOMAIN timers : timers[i].kind = "cardEnd" /\ timers[i].live

\* C5: the pending timers and the running animation loop all belong to one
\* session, with at most one completion timer pending.
C5_OneLiveSession ==
    /\ \A i, j \in DOMAIN timers : timers[i].sid = timers[j].sid
    /\ raf => \A i \in DOMAIN timers : timers[i].sid = race.sid
    /\ Cardinality({i \in DOMAIN timers : timers[i].kind \in EndKinds}) <= 1


\* a step in which a timer invokes the completion callback
CompletionStep == \E s \in 1..MaxSessions : endCalls'[s] # endCalls[s]

\* C17: the winner is selected by selectNameIndex in the step that accepts
\* an interactive draw and changes in no other step (no timer, animation
\* frame, mode or visualization switch touches it); every completion timer a
\* session sets closes over that winner; and the step in which a completion
\* timer fires makes the name it closed over, the one selected when its
\* session's draw was accepted, the result text and the newest history entry.
C17_WinnerFixedAtAccept ==
    [][/\ currentWinner' # currentWinner => sessionId' # sessionId
       /\ sessionId' # sessionId =>
            /\ ~isSpinning /\ isSpinning'
            /\ sessionId' = sessionId + 1
            /\ \E u \in RandomValues :
                    LET sel == selectNameIndex(AppRec, u)
                    IN  /\ sel.idx # -1
                        /\ currentWinner' = [name |-> names[sel.idx + 1], index |-> sel.idx]
       /\ \A i \in DOMAIN timers' :
            /\ timers'[i].sid = sessionId' =>
                    timers'[i].closure.currentWinner = currentWinner'
            /\ timers'[i].sid # sessionId' =>
                    \E j \in DOMAIN timers :
                        /\ timers[j].sid = timers'[i].sid
                        /\ timers[j].closure = timers'[i].closure
       /\ CompletionStep =>
            LET t == timers[NextTimer]
            IN  /\ endCalls'[t.sid] = endCalls[t.sid] + 1
                /\ resultCardText' = <<t.closure.currentWinner.name>>
                /\ history'[1].result = <<t.closure.currentWinner.name>>]_vars

\* a session whose draw selected Jane has completed
C17_Witness ==
    /\ endCalls[1] = 1
    /\ sessionId = 1
    /\ ~isSpinning
    /\ currentWinner = [name |-> "Jane", index |-> 1]
    /\ resultCardText = <<"Jane">>
    /\ Len(history) = 1
    /\ history[1].result = <<"Jane">>


\* Draws in the single and the interactive mode, interleaved: card sessions
\* (the Cards visualization has been chosen), the mode buttons, and time.
InitModes ==
    /\ InitApp([DefaultState(SubSeq(Roster, 1, 2)) EXCEPT !.interactiveMode = "card"])
    /\ InitSim
    /\ probe = 0

NextModes ==
    \/ \E u \in RandomValues :
            /\ Len(history) + sessionId <= MaxLog
            /\ ClickDraw(RequestInput(u), NoRaceInput)
    \/ \E m \in {"single", "interactive"} : SetMode(m, NoRaceInput)
    \/ Tick(1000, 0)
    \/ FireTimer(NoRaceInput)
    \/ ShowResult(NoRaceInput)

SpecModes == InitModes /\ [][NextModes]_vars

\* C18: the step that accepts an interactive draw leaves the history as it
\* is; a single draw that is accepted puts exactly one entry in front of the
\* history in the same step; and a completion callback fires once for its
\* session and puts exactly one entry in front of the history; no other step
\* changes the history.
C18_OneEntryPerDraw ==
    [][/\ sessionId' # sessionId => history' = history
       /\ (history' # history /\ ~CompletionStep) =>
            /\ mode = "single"
            /\ ~isSpinning
            /\ Len(history') = Len(history) + 1
            /\ Tail(history') = history
       /\ CompletionStep =>
            /\ endCalls[timers[NextTimer].sid] = 0
            /\ Len(history') = Len(history) + 1
            /\ Tail(history') = history]_vars

\* C19: while the latest interactive session has not reached Done (its
\* completion callback has not been invoked), no draw is accepted in any
\* mode, whatever mode buttons are clicked meanwhile: no further session
\* starts, and the history changes only when a completion callback fires.
C19_OneDrawAtATime ==
    [][(sessionId >= 1 /\ endCalls[sessionId] = 0) =>
            /\ sessionId' = sessionId
            /\ history' # history => CompletionStep]_vars


\* Adding names and tasks: values typed into the two inputs.
NameInputs ==
    {<<"Zed">>, <<"Zed", "\n", "Zed">>, <<" ", "Amy", "\n", "John">>,
     <<"Amy", "\t", "\n", "Zed", " ">>, <<"Mary", " ", "Ann">>, <<"\n", " ">>}

TaskInputs ==
    {<<TaskRoster[i]>> : i \in 1..(MaxTasks + 1)}
        \cup {<<" ", TaskRoster[1], "\n">>, <<" ">>}

InitAdd ==
    /\ \E m \in {"single", "paired"} :
            InitApp([DefaultState(SubSeq(Roster, 1, 1)) EXCEPT !.mode = m])
    /\ InitSim
    /\ probe = 0

NextAdd ==
    \/ \E value \in NameInputs :
            /\ Len(names) < MaxNames
            /\ AddItems("names", value, NoRaceInput)
    \/ \E value \in TaskInputs :
            /\ Len(tasks) < MaxTasks
            /\ AddItems("tasks", value, NoRaceInput)
    \/ ToastExpire(NoRaceInput)

SpecAdd == InitAdd /\ [][NextAdd]_vars

NoDuplicate(list) == \A i, j \in DOMAIN list : list[i] = list[j] => i = j

\* C20: after any sequence of adds, one names value possibly carrying several
\* names, no string occurs twice in the name list or in the task list.
C20_NoDuplicates == NoDuplicate(names) /\ NoDuplicate(tasks)


\* List maintenance and draws in the paired mode (a draw there selects a name
\* and a task), from the default state with its list cut down to one name.
ListNameInputs == {<<"Zed">>, <<" ", "John", "\n">>}

ListTaskInputs == {<<TaskRoster[1]>>, <<TaskRoster[2]>>}

InitLists ==
    /\ InitApp([DefaultState(SubSeq(Roster, 1, 1)) EXCEPT !.mode = "paired"])
    /\ InitSim
    /\ probe = 0

NextLists ==
    \/ \E u, v \in RandomValues :
            /\ Len(history) < MaxListDraws
            /\ ClickDraw([name |-> u, task |-> v, order |-> names, id |-> 0], NoRaceInput)
    \/ \E value \in ListNameInputs : AddItems("names", value, NoRaceInput)
    \/ \E i \in 0..(MaxNames - 1) : RemoveName(i, NoRaceInput)
    \/ ClearList("names", NoRaceInput)
    \/ \E shuffled \in Shuffles(names) : ShuffleNames(shuffled, NoRaceInput)
    \/ ToggleNameNoRepeat(NoRaceInput)
    \/ \E value \in ListTaskInputs : AddItems("tasks", value, NoRaceInput)
    \/ \E i \in 0..(MaxTasks - 1) : RemoveTask(i, NoRaceInput)
    \/ ClearList("tasks", NoRaceInput)
    \/ ToggleTaskNoRepeat(NoRaceInput)
    \/ ResetAllDraws(NoRaceInput)
    \/ ToastExpire(NoRaceInput)
    \/ ShowResult(NoRaceInput)

SpecLists == InitLists /\ [][NextLists]_vars

\* every index of pool is an index of list, and none occurs twice
PoolValid(pool, list) ==
    /\ \A i \in DOMAIN pool : pool[i] \in 0..(Len(list) - 1)
    /\ \A i, j \in DOMAIN pool : pool[i] = pool[j] => i = j

\* C21: after any sequence of add, remove, clear, shuffle, no-repeat toggle,
\* reset and draw operations, every index in the name pool is less than the
\* length of the name list, every index in the task pool is less than the
\* length of the task list, and no index occurs twice in a pool.
C21_PoolsValid ==
    /\ PoolValid(availableNamesIndices, names)
    /\ PoolValid(availableTasksIndices, tasks)

\* Zed was added, a paired draw took an index from each pool, and John was
\* removed afterwards
C21_Witness ==
    /\ names = <<"Zed">>
    /\ isNameNoRepeat
    /\ isTaskNoRepeat
    /\ availableNamesIndices = <<0>>
    /\ Len(tasks) = 2
    /\ Len(availableTasksIndices) = 1
    /\ Len(history) = 1
    /\ history[1].result[1] = "John"


\* One interactive session in each of the four visualizations, which stays
\* mounted (no mode or visualization button is clicked), with names removed
\* from the list meanwhile; the host runs every due timer and every requested
\* animation frame, and time passes.
InitLive ==
    /\ \E v \in {"wheel", "race", "marble", "card"} :
            InitApp([DefaultState(SubSeq(Roster, 1, 2)) EXCEPT
                        !.mode = "interactive", !.interactiveMode = v])
    /\ InitSim
    /\ probe = 0

\* d ms pass once the animation frame requested for the current time has run
\* (the host runs a requested frame within its refresh interval)
FrameTick(d, maxElapsed) ==
    /\ raf => (race.started /\ race.lastElapsed = race.elapsed)
    /\ Tick(d, maxElapsed)

\* DuckRace animate, lines 281-330, past maxElapsed: a frame of a race in
\* which every duck stands at the finish line and no winner is declared moves
\* no duck, finds no winner across the line and requests the next frame;
\* probe tells such frames apart
IdleFrame(maxElapsed) ==
    /\ raf /\ race.sim = "race" /\ race.started /\ ~race.winnerDeclared
    /\ race.elapsed = maxElapsed /\ race.lastElapsed = race.elapsed
    /\ \A i \in DOMAIN race.racers :
            race.racers[i].pos >= race.finishLineX /\ ~race.racers[i].isWinner
    /\ probe' = 1 - probe
    /\ UNCHANGED <<appVars, simVars>>

NextLive ==
    \/ \E u \in RandomValues :
            /\ sessionId = 0
            /\ ClickDraw(RequestInput(u), StillRaceInput)
    \/ \E i \in 0..(MaxNames - 1) : RemoveName(i, StillRaceInput)
    \/ FrameTick(1000, 6000)
    \/ FireTimer(StillRaceInput)
    \/ AnimateDuck(NoWobble)
    \/ AnimateMarble
    \/ IdleFrame(6000)
    \/ ShowResult(StillRaceInput)
    \/ ToastExpire(StillRaceInput)

LiveFairness ==
    /\ WF_vars(FrameTick(1000, 6000))
    /\ WF_vars(FireTimer(StillRaceInput))
    /\ WF_vars(AnimateDuck(NoWobble))
    /\ WF_vars(AnimateMarble)
    /\ WF_vars(IdleFrame(6000))
    /\ WF_vars(ShowResult(StillRaceInput))
    /\ WF_vars(ToastExpire(StillRaceInput))

SpecLive == InitLive /\ [][NextLive]_vars /\ LiveFairness

\* C22: with timers and animation frames run fairly, every accepted
\* interactive draw whose visualization stays mounted reaches Done: the
\* completion callback fires, isSpinning returns to false and the winner is
\* logged.
C22_EventuallyDone ==
    isSpinning ~> (~isSpinning /\ endCalls[1] >= 1 /\ Len(history) >= 1)

\* ------------------------------------------------ persistence (utils.ts, App)

\* JSON text as the runtime's JSON.stringify writes it and JSON.parse reads
\* it. The text of the localStorage entry is a sequence of tokens: the
\* punctuation of JSON, the literals true, false and null, one token per
\* decimal digit, and a string literal as a quote, its content and a quote.
Quote == "\""

\* the decimal numeral of an integer
RECURSIVE NumTokens(_)
NumTokens(n) ==
    IF n < 0 THEN <<"-">> \o NumTokens(0 - n)
    ELSE IF n < 10 THEN <<Digits[n + 1]>>
    ELSE NumTokens(n \div 10) \o <<Digits[(n % 10) + 1]>>

BoolTokens(b) == IF b THEN <<"true">> ELSE <<"false">>

\* a string of one token (a name, a mode) and a text of several
StrTokens(s) == <<Quote, s, Quote>>

TextTokens(text) == <<Quote>> \o text \o <<Quote>>

RECURSIVE CommaSep(_)
CommaSep(items) ==
    IF Len(items) = 0 THEN <<>>
    ELSE IF Len(items) = 1 THEN items[1]
    ELSE items[1] \o <<",">> \o CommaSep(Tail(items))

ArrTokens(items) == <<"[">> \o CommaSep(items) \o <<"]">>

Member(key, value) == <<Quote, key, Quote, ":">> \o value

ObjTokens(members) == <<"{">> \o CommaSep(members) \o <<"}">>

NamesTokens(list) == ArrTokens([i \in 1..Len(list) |-> StrTokens(list[i])])

IndicesTokens(pool) == ArrTokens([i \in 1..Len(pool) |-> NumTokens(pool[i])])

\* a HistoryEntry; groups is left out when undefined (the timestamp, which
\* no handler reads, is not part of the model's entries)
EntryTokens(e) ==
    ObjTokens(<<Member("id", NumTokens(e.id)),
                Member("result", TextTokens(e.result)),
                Member("mode", StrTokens(e.mode))>>
              \o IF e.groups = <<>> THEN <<>>
                 ELSE <<Member("groups",
                          ArrTokens([g \in 1..Len(e.groups) |-> NamesTokens(e.groups[g])]))>>)

\* JSON.stringify(state): the ten fields of AppState in their order
stringify(S) ==
    ObjTokens(<<Member("names", NamesTokens(S.names)),
                Member("tasks", NamesTokens(S.tasks)),
                Member("history", ArrTokens([i \in 1..Len(S.history) |-> EntryTokens(S.history[i])])),
                Member("isNameNoRepeat", BoolTokens(S.isNameNoRepeat)),
                Member("availableNamesIndices", IndicesTokens(S.availableNamesIndices)),
                Member("isTaskNoRepeat", BoolTokens(S.isTaskNoRepeat)),
                Member("availableTasksIndices", IndicesTokens(S.availableTasksIndices)),
                Member("mode", StrTokens(S.mode)),
                Member("interactiveMode", StrTokens(S.interactiveMode)),
                Member("numGroups", NumTokens(S.numGroups))>>)

\* a JSON value: k is its kind, and the field of that kind holds it (a the
\* elements of an array, o the members of an object in their order)
JValue(k) == [k |-> k, b |-> FALSE, n |-> 0, s |-> <<>>, a |-> <<>>, o |-> <<>>]

JNull == JValue("null")

ParseFail == [ok |-> FALSE, v |-> JNull, i |-> 0]

Parsed(v, i) == [ok |-> TRUE, v |-> v, i |-> i]

At(t, i) == IF i \in 1..Len(t) THEN t[i] ELSE ""

\* a string literal at t[i]: up to the next quote
ParseString(t, i) ==
    IF At(t, i) # Quote \/ ~(\E j \in (i + 1)..Len(t) : t[j] = Quote) THEN ParseFail
    ELSE LET j == CHOOSE j \in (i + 1)..Len(t) :
                    t[j] = Quote /\ \A m \in (i + 1)..(j - 1) : t[m] # Quote
         IN  Parsed([JValue("str") EXCEPT !.s = SubSeq(t, i + 1, j - 1)], j + 1)

\* the digits from t[i] on, acc the value of those read
RECURSIVE ParseDigits(_, _, _)
ParseDigits(t, i, acc) ==
    IF IsDigit(At(t, i)) THEN ParseDigits(t, i + 1, acc * 10 + DigitValue(t[i]))
    ELSE Parsed([JValue("num") EXCEPT !.n = acc], i)

\* a number at t[i]: no digit may follow a leading 0
ParseNumber(t, i) ==
    IF ~IsDigit(At(t, i)) \/ (t[i] = "0" /\ IsDigit(At(t, i + 1))) THEN ParseFail
    ELSE ParseDigits(t, i, 0)

RECURSIVE ParseValue(_, _)
RECURSIVE ParseElements(_, _, _)
RECURSIVE ParseMembers(_, _, _)

ParseValue(t, i) ==
    LET c == At(t, i)
    IN  IF c = "{"
        THEN IF At(t, i + 1) = "}" THEN Parsed(JValue("obj"), i + 2)
             ELSE ParseMembers(t, i + 1, <<>>)
        ELSE IF c = "["
        THEN IF At(t, i + 1) = "]" THEN Parsed(JValue("arr"), i + 2)
             ELSE ParseElements(t, i + 1, <<>>)
        ELSE IF c = Quote THEN ParseString(t, i)
        ELSE IF c = "true" THEN Parsed([JValue("bool") EXCEPT !.b = TRUE], i + 1)
        ELSE IF c = "false" THEN Parsed(JValue("bool"), i + 1)
        ELSE IF c = "null" THEN Parsed(JNull, i + 1)
        ELSE IF c = "-"
        THEN LET r == ParseNumber(t, i + 1)
             IN  IF r.ok THEN Parsed([r.v EXCEPT !.n = 0 - @], r.i) ELSE ParseFail
        ELSE ParseNumber(t, i)

\* the elements of an array from t[i] on, up to its bracket
ParseElements(t, i, acc) ==
    LET r == ParseValue(t, i)
    IN  IF ~r.ok THEN ParseFail
        ELSE IF At(t, r.i) = "," THEN ParseElements(t, r.i + 1, Append(acc, r.v))
        ELSE IF At(t, r.i) = "]"
        THEN Parsed([JValue("arr") EXCEPT !.a = Append(acc, r.v)], r.i + 1)
        ELSE ParseFail

\* the members of an object from t[i] on, up to its brace
ParseMembers(t, i, acc) ==
    LET key == ParseString(t, i)
    IN  IF ~key.ok \/ At(t, key.i) # ":" THEN ParseFail
        ELSE LET r == ParseValue(t, key.i + 1)
                 members == Append(acc, [key |-> Join(key.v.s), value |-> r.v])
             IN  IF ~r.ok THEN ParseFail
                 ELSE IF At(t, r.i) = "," THEN ParseMembers(t, r.i + 1, members)
                 ELSE IF At(t, r.i) = "}"
                 THEN Parsed([JValue("obj") EXCEPT !.o = members], r.i + 1)
                 ELSE ParseFail

\* JSON.parse(text): ok is false where it throws a SyntaxError
JSONParse(t) ==
    LET r == ParseValue(t, 1)
    IN  IF r.ok /\ r.i = Len(t) + 1 THEN r ELSE ParseFail

\* the localStorage entry under STORAGE_KEY
NoItem == [present |-> FALSE, text |-> <<>>]

Item(t) == [present |-> TRUE, text |-> t]

\* mutant: a blob that cannot be parsed is answered with an empty list
loadStateEmptiesList(item, getThrows) ==
    IF getThrows THEN JNull
    ELSE IF ~item.present \/ item.text = <<>> THEN JNull
    ELSE LET r == JSONParse(item.text)
         IN  IF r.ok THEN r.v
             ELSE [JValue("obj") EXCEPT !.o = <<[key |-> "names", value |-> JValue("arr")]>>]

\* loadState(): getThrows says whether localStorage.getItem throws
loadState(item, getThrows) ==
    IF getThrows THEN JNull
    ELSE IF ~item.present \/ item.text = <<>> THEN JNull
    ELSE LET r == JSONParse(item.text)
         IN  IF r.ok THEN r.v ELSE JNull

\* saveState(state): the entry afterwards; setThrows says whether
\* localStorage.setItem throws
saveState(item, S, setThrows) == IF setThrows THEN item ELSE Item(stringify(S))

\* if (loaded)
Truthy(v) ==
    \/ v.k \in {"obj", "arr"}
    \/ v.k = "bool" /\ v.b
    \/ v.k = "num" /\ v.n # 0
    \/ v.k = "str" /\ v.s # <<>>

Has(v, key) == \E i \in 1..Len(v.o) : v.o[i].key = key

\* the member of that key (the last one, if the text repeats the key)
Get(v, key) ==
    v.o[CHOOSE i \in 1..Len(v.o) :
            v.o[i].key = key /\ \A j \in (i + 1)..Len(v.o) : v.o[j].key # key].value

AsNames(v) == [i \in 1..Len(v.a) |-> Join(v.a[i].s)]

AsIndices(v) == [i \in 1..Len(v.a) |-> v.a[i].n]

AsEntry(v) ==
    [id |-> Get(v, "id").n, result |-> Get(v, "result").s,
     mode |-> Join(Get(v, "mode").s),
     groups |-> IF Has(v, "groups")
                THEN [g \in 1..Len(Get(v, "groups").a) |-> AsNames(Get(v, "groups").a[g])]
                ELSE <<>>]

\* { ...prev, ...loaded } for a loaded value of its declared type,
\* Partial<AppState>: the fields it has replace those of prev (an array, a
\* string or a number spread into the object adds no field of AppState)
Merge(prev, v) ==
    [prev EXCEPT
        !.names = IF Has(v, "names") THEN AsNames(Get(v, "names")) ELSE @,
        !.tasks = IF Has(v, "tasks") THEN AsNames(Get(v, "tasks")) ELSE @,
        !.history = IF Has(v, "history")
                    THEN [i \in 1..Len(Get(v, "history").a) |-> AsEntry(Get(v, "history").a[i])]
                    ELSE @,
        !.isNameNoRepeat = IF Has(v, "isNameNoRepeat") THEN Get(v, "isNameNoRepeat").b ELSE @,
        !.availableNamesIndices = IF Has(v, "availableNamesIndices")
                                  THEN AsIndices(Get(v, "availableNamesIndices")) ELSE @,
        !.isTaskNoRepeat = IF Has(v, "isTaskNoRepeat") THEN Get(v, "isTaskNoRepeat").b ELSE @,
        !.availableTasksIndices = IF Has(v, "availableTasksIndices")
                                  THEN AsIndices(Get(v, "availableTasksIndices")) ELSE @,
        !.mode = IF Has(v, "mode") THEN Join(Get(v, "mode").s) ELSE @,
        !.interactiveMode = IF Has(v, "interactiveMode")
                            THEN Join(Get(v, "interactiveMode").s) ELSE @,
        !.numGroups = IF Has(v, "numGroups") THEN Get(v, "numGroups").n ELSE @]

\* In SpecStore probe holds the storage and the load: item is the
\* localStorage entry, isLoaded the useState cell, getThrew and setThrew
\* whether getItem and setItem threw in the last step.

\* The two effects at mount: the load (lines 76-82), and, once isLoaded is
\* set, the save of the state it left (lines 85-89).
MountApp(getThrows, setThrows) ==
    /\ ~probe.isLoaded
    /\ LET loaded == loadState(probe.item, getThrows)
           new == IF Truthy(loaded) THEN Merge(AppRec, loaded) ELSE AppRec
       IN  /\ Render(new, NoRaceInput)
           /\ probe' = [item |-> saveState(probe.item, new, setThrows), isLoaded |-> TRUE,
                        getThrew |-> getThrows, setThrew |-> setThrows]
    /\ UNCHANGED <<endCalls, lateCall>>

\* a handler that calls updateState, and the save effect of the new state
Saved(new, setThrows) ==
    /\ probe.isLoaded
    /\ Render(new, NoRaceInput)
    /\ probe' = [probe EXCEPT !.item = saveState(@, new, setThrows),
                              !.getThrew = FALSE, !.setThrew = setThrows]
    /\ UNCHANGED <<endCalls, lateCall>>

\* the page loaded again: the state is DEFAULT_STATE again and the entry
\* is still there (no simulator has run in the modes of SpecStore)
Reload ==
    /\ probe.isLoaded
    /\ SetApp(DefaultState(Roster))
    /\ probe' = [probe EXCEPT !.isLoaded = FALSE, !.getThrew = FALSE, !.setThrew = FALSE]
    /\ UNCHANGED simVars

\* entries found at the first mount: none, the empty text, texts that are
\* no JSON (cut short, no JSON at all, a comma too many), null, and the
\* object of a state with fewer fields
StoredItems ==
    {NoItem, Item(<<>>),
     Item(<<"{", Quote, "names", Quote, ":", "[", Quote, "Zed", Quote>>),
     Item(<<"drawLots">>),
     Item(<<"{", Quote, "mode", Quote, ":", Quote, "groups", Quote, ",", "}">>),
     Item(<<"null">>),
     Item(ObjTokens(<<Member("mode", StrTokens("groups")), Member("numGroups", NumTokens(3))>>))}

InitStore ==
    /\ InitApp(DefaultState(Roster))
    /\ InitSim
    /\ \E item \in StoredItems :
          probe = [item |-> item, isLoaded |-> FALSE, getThrew |-> FALSE, setThrew |-> FALSE]

NextStore ==
    \/ \E getThrows, setThrows \in BOOLEAN : MountApp(getThrows, setThrows)
    \/ \E setThrows \in BOOLEAN : Saved(toggleNameNoRepeat(AppRec), setThrows)
    \/ \E m \in {"single", "groups"}, setThrows \in BOOLEAN :
          Saved([AppRec EXCEPT !.mode = m], setThrows)
    \/ \E u \in {0, RandomUnits - 1}, setThrows \in BOOLEAN :
          /\ Len(history) < MaxStoreDraws
          /\ Saved(handleDraw(AppRec, [name |-> u, task |-> 0, order |-> names,
                                       id |-> Len(history) + 1]), setThrows)
    \/ Reload
    \/ ShowResult(NoRaceInput)

SpecStore == InitStore /\ [][NextStore]_vars

\* the text of the entry is JSON
Parsable(item) == item.present /\ item.text # <<>> /\ JSONParse(item.text).ok

\* C23: loading never fails the application: the mount always ends with the
\* state loaded (isLoaded set), and where the entry is absent or cannot be
\* read or parsed the state is left as it was, the defaults; a save that
\* fails leaves the entry as it was and the application running with the
\* state its handler computed.
C23_LoadSaveNeverFail ==
    [][/\ (~probe.isLoaded /\ probe'.isLoaded /\ (probe'.getThrew \/ ~Parsable(probe.item))
            => AppRec' = AppRec /\ AppRec' = DefaultState(Roster))
       /\ (probe'.setThrew => probe'.item = probe.item /\ probe'.isLoaded)
       /\ (probe.isLoaded /\ probe'.isLoaded /\ probe'.setThrew /\ mode' # mode
            => AppRec' = [AppRec EXCEPT !.mode = mode'])]_vars

\* a text that is no JSON was found at mount and the save after it failed:
\* the defaults are in place, the application runs and the entry is as it was
C23_Witness ==
    /\ probe.isLoaded /\ probe.setThrew
    /\ probe.item.present /\ probe.item.text # <<>> /\ ~JSONParse(probe.item.text).ok
    /\ AppRec = DefaultState(Roster)

\* ------------------------------------------------- re-renders during a session

\* One interactive draw on the visualization selected, with the fullscreen
\* button pressed while it runs; a race set up again draws its random
\* numbers again.
OtherRaceInput == [u |-> [i \in 1..MaxNames |-> RandomUnits - 1], finishLineX |-> 245]

NextRerender ==
    \/ \E u \in RandomValues :
            /\ sessionId = 0
            /\ ClickDraw(RequestInput(u), StillRaceInput)
    \/ ToggleFullscreen(OtherRaceInput)
    \/ FrameTick(1000, 6000)
    \/ FireTimer(StillRaceInput)
    \/ AnimateDuck(NoWobble)
    \/ AnimateMarble
    \/ ShowResult(OtherRaceInput)
    \/ PressEscape(OtherRaceInput)

SpecRerender == InitLive /\ [][NextRerender]_vars

\* C24: a simulator is started once per winner: a render of App while the
\* session runs (here: fullscreen toggled) does not start it again, so the
\* pending timers are the same, none added and none set back, and the race
\* keeps its clock and its random parameters.
C24_StartedOncePerWinner ==
    [][(isSpinning /\ isSpinning' /\ isFullscreen' # isFullscreen)
            => timers' = timers /\ race' = race]_vars

\* ------------------------------------------------------- wheel: rotation delta

\* Successive spins of the wheel as the effect computes them, the list
\* having one of these sizes at each run of the effect (names are added and
\* removed between spins and during a spin). probe holds whether the wheel
\* is mounted, its baseline (last; NoBaseline while no wheel is mounted), the
\* minRotationDelta of the effect's last run (delta), the rotation its timer
\* will store (target), whether that timer is pending (spinning), whether
\* App's isSpinning is set (running), the winner's index, and the number of
\* draws. Angles are doubles.
WheelSizes == {2, 3, 13, 14}

NoBaseline == <<>>

InitDelta ==
    /\ InitApp([DefaultState(Roster) EXCEPT !.mode = "interactive"])
    /\ InitSim
    /\ probe = [mounted |-> TRUE, last |-> FromInt(0), delta |-> FromInt(0),
                target |-> FromInt(0),
                spinning |-> FALSE, running |-> FALSE, winnerIndex |-> 0,
                spins |-> 0]

\* SpinWheel effect, lines 25-49, run on a list of n names from baseline last
SpinEffect(P, last, n) ==
    [P EXCEPT !.last = last,
              !.delta = MinRotationDelta(last, P.winnerIndex, n),
              !.target = RotationAfter(last, P.winnerIndex, n),
              !.spinning = TRUE]

\* a draw is accepted on a list of n names while the wheel is mounted, and
\* the effect runs
Spin(n, winnerIndex) ==
    /\ probe.mounted
    /\ ~probe.running
    /\ probe.spins < MaxSpins
    /\ probe' = SpinEffect([probe EXCEPT !.winnerIndex = winnerIndex,
                                         !.running = TRUE,
                                         !.spins = @ + 1], probe.last, n)
    /\ UNCHANGED <<appVars, simVars>>

\* the list is edited while the wheel spins and has n names now: the cleanup
\* clears the timer and the effect runs again (segmentAngle is a dependency)
Respin(n) ==
    /\ probe.spinning
    /\ probe' = SpinEffect(probe, probe.last, n)
    /\ UNCHANGED <<appVars, simVars>>

\* a mode button or another visualization is clicked: the wheel is unmounted,
\* its cleanup clears the timer (line 49) and its baseline cell is gone;
\* App's isSpinning and currentWinner stay as they are
UnmountWheel ==
    /\ probe.mounted
    /\ probe' = [probe EXCEPT !.mounted = FALSE, !.last = NoBaseline,
                              !.spinning = FALSE]
    /\ UNCHANGED <<appVars, simVars>>

\* the wheel is selected again, on a list of n names: the baseline is a new
\* useState cell (0), and the effect runs if isSpinning is still set
MountWheel(n) ==
    /\ ~probe.mounted
    /\ probe' = IF probe.running
                THEN SpinEffect([probe EXCEPT !.mounted = TRUE], FromInt(0), n)
                ELSE [probe EXCEPT !.mounted = TRUE, !.last = FromInt(0)]
    /\ UNCHANGED <<appVars, simVars>>

\* the timer's callback, lines 43-47: setLastRotation(newTotalRotation), and
\* onSpinEnd clears App's isSpinning
SpinEnd ==
    /\ probe.spinning
    /\ probe' = [probe EXCEPT !.last = probe.target, !.spinning = FALSE,
                              !.running = FALSE]
    /\ UNCHANGED <<appVars, simVars>>

NextDelta ==
    \/ \E n \in WheelSizes : \E winnerIndex \in 0..(n - 1) : Spin(n, winnerIndex)
    \/ \E n \in WheelSizes : Respin(n)
    \/ UnmountWheel
    \/ \E n \in WheelSizes : MountWheel(n)
    \/ SpinEnd

SpecDelta == InitDelta /\ [][NextDelta]_vars

\* C25: for every wheel spin the minimal forward rotation delta lies in
\* (0, 360], so that the spin adds more than 1800 and at most 2160 degrees.
C25_DeltaInRange ==
    probe.spins > 0 =>
        DLess(FromInt(0), probe.delta) /\ ~DLess(FromInt(360), probe.delta)

\* -------------------------------------------------------- wheel: the baseline

\* C26: each wheel spin starts from the angle the previous completed spin
\* came to rest at: the baseline (lastRotation) never decreases and never
\* goes back to 0, also when another visualization is selected and the
\* wheel selected again between spins.
C26_BaselineNeverDecreases == [][lastRotation' >= lastRotation]_vars

\* ------------------------------------------------ wheel: the completion timer

\* the pending timers of SpinWheel
SpinTimers(q) == {i \in DOMAIN q : q[i].kind = "spinEnd"}

\* C27: the wheel's completion callback comes from a timer of 6000 ms only
\* (a completion timer is either set in this step, with 6000 ms to go, or
\* the one pending before, with no more time to go than it had); the timer
\* is pending only while the wheel is mounted and the running flag is set
\* (tearing the wheel down or clearing the flag clears it); and at most one
\* completion timer is pending at any time.
C27_OneSpinTimer ==
    [][/\ Cardinality(SpinTimers(timers')) <= 1
       /\ SpinTimers(timers') # {} => isSpinning' /\ Mounted(AppRec') = "wheel"
       /\ \A i \in SpinTimers(timers') :
            \/ timers'[i].due = 6000
            \/ \E j \in SpinTimers(timers) : timers'[i].due <= timers[j].due]_vars

\* a wheel spinning was torn down (the mode switched away) before its timer
\* fired: no timer is left and the callback has not fired
C27_Witness ==
    /\ isSpinning /\ mode = "single" /\ interactiveMode = "wheel"
    /\ sessionId = 1 /\ endCalls[1] = 0 /\ timers = <<>>

\* ------------------------------------------------- lane races: the declaration

\* racer i of race r is at the finish boundary
AtFinish(r, i) ==
    IF r.sim = "race" THEN r.racers[i].pos >= r.finishLineX
    ELSE r.racers[i].pos.num >= r.racers[i].pos.den

RaceEndTimers(q) == {i \in DOMAIN q : q[i].kind = "raceEnd"}

\* C28: a lane race declares its winner only in a frame where the designated
\* winner is at the finish boundary and the elapsed time has reached the
\* floor (3000 ms duck, 3500 ms marble), and the completion callback is set
\* in that frame, 2000 ms ahead, and in no other step.
C28_DeclaredAtFinish ==
    [][/\ (race'.winnerDeclared /\ ~race.winnerDeclared) =>
            /\ \E i \in DOMAIN race'.racers : race'.racers[i].isWinner /\ AtFinish(race', i)
            /\ race'.lastElapsed >= (IF race'.sim = "race" THEN 3000 ELSE 3500)
            /\ Len(timers') = Len(timers) + 1
            /\ timers'[Len(timers')].kind = "raceEnd" /\ timers'[Len(timers')].due = 2000
       /\ Cardinality(RaceEndTimers(timers')) > Cardinality(RaceEndTimers(timers))
            => race'.winnerDeclared /\ ~race.winnerDeclared]_vars

\* ------------------------------------------------------- duck race: the speeds

\* One duck race on each of these lists (two names, three names, and three
\* ducks two of which carry the same name), for every winner and every value
\* of Math.random() of each duck, without wobble.
SpeedLists ==
    {SubSeq(Roster, 1, n) : n \in 2..MaxNames} \cup {<<Roster[1], Roster[2], Roster[2]>>}

InitSpeeds ==
    /\ \E list \in SpeedLists :
            InitApp([DefaultState(list) EXCEPT
                        !.mode = "interactive", !.interactiveMode = "race"])
    /\ InitSim
    /\ probe = 0

NextSpeeds ==
    \/ /\ sessionId = 0
       /\ \E u \in RandomValues, us \in RandomVectors :
            ClickDraw([name |-> u, task |-> 0, order |-> names, id |-> 0],
                         [u |-> us, finishLineX |-> 245])
    \/ AnimateDuck(NoWobble)
    \/ Tick(1000, 4000)
    \/ FireTimer(NoRaceInput)
    \/ ShowResult(NoRaceInput)

SpecSpeeds == InitSpeeds /\ [][NextSpeeds]_vars

\* C29: in a duck race set up for a list in which one duck carries the
\* winner's name, the winner's base speed is 1.15 (23 / 20) times the
\* greatest base speed among the other ducks, and so greater than the base
\* speed of each of them.
C29_WinnerFastest ==
    race.sim = "race" =>
        LET winners == {i \in DOMAIN race.racers : race.racers[i].isWinner}
            others == DOMAIN race.racers \ winners
        IN  Cardinality(winners) = 1 /\ others # {} =>
                \A w \in winners :
                    /\ \A i \in others : race.racers[w].pace > race.racers[i].pace
                    /\ \E m \in others :
                        /\ \A i \in others : race.racers[i].pace <= race.racers[m].pace
                        /\ 20 * race.racers[w].pace = 23 * race.racers[m].pace

\* a race of three ducks, its frames running: the winner is the second, the
\* first drew the greatest random speed and the third the smallest, so the
\* greatest speed among the two others is not that of the last one
C29_Witness ==
    /\ race.sim = "race" /\ race.started
    /\ Len(race.racers) = 3
    /\ ~race.racers[1].isWinner /\ race.racers[2].isWinner /\ ~race.racers[3].isWinner
    /\ race.racers[1].pace = 20 * ((RandomUnits - 1) * (200 - 120) + 120 * RandomUnits)
    /\ race.racers[3].pace = 20 * 120 * RandomUnits
    /\ 20 * race.racers[2].pace = 23 * race.racers[1].pace

\* ------------------------------------------------------------ cards: the phases

\* Card, lines 34-35: isRevealed, the card of that index shows its result face
isRevealed(index, state) == state = "revealed" /\ index = 1

\* C30: while a card session runs its phase changes only from shuffling to
\* picking and from picking to revealed; a card shows the winner's name only
\* in the revealed phase and only at the centre position; and the completion
\* callback fires only once the revealed phase has been entered.
C30_CardPhasesInOrder ==
    [][(interactiveMode = "card" /\ isSpinning) =>
            /\ isSpinning' =>
                \/ step' = step
                \/ step = "shuffling" /\ step' = "picking"
                \/ step = "picking" /\ step' = "revealed"
            /\ \A index \in 0..2 : isRevealed(index, step') => step' = "revealed" /\ index = 1
            /\ endCalls' # endCalls => step = "revealed"]_vars

\* ------------------------------------------------- groups draws and the pools

\* Draws in the modes single, paired and groups on two names and two tasks
\* restored at mount, with both no-repeat switches.
InitBypass ==
    /\ InitApp([DefaultState(SubSeq(Roster, 1, 2)) EXCEPT
                    !.tasks = SubSeq(TaskRoster, 1, 2), !.availableTasksIndices = <<0, 1>>])
    /\ InitSim
    /\ probe = 0

NextBypass ==
    \/ \E u, v \in {0, RandomUnits - 1} :
            /\ Len(history) < MaxLog
            /\ ClickDraw([name |-> u, task |-> v, order |-> names, id |-> Len(history) + 1],
                         NoRaceInput)
    \/ \E m \in {"single", "paired", "groups"} : SetMode(m, NoRaceInput)
    \/ ToggleNameNoRepeat(NoRaceInput)
    \/ ToggleTaskNoRepeat(NoRaceInput)
    \/ ToastExpire(NoRaceInput)
    \/ ShowResult(NoRaceInput)

SpecBypass == InitBypass /\ [][NextBypass]_vars

\* C31: a groups draw leaves the name pool and the task pool as they are,
\* whatever the no-repeat switches say, and it succeeds (logs its groups)
\* also when the no-repeat name pool is empty. (A step in groups mode that
\* changes neither the mode nor a switch is a draw, unless it is the expiry
\* of the toast or the 50 ms timeout that shows the result card; those two
\* leave the pools alone as well.)
C31_GroupsBypassPools ==
    [][(/\ mode = "groups" /\ mode' = "groups"
        /\ isNameNoRepeat' = isNameNoRepeat /\ isTaskNoRepeat' = isTaskNoRepeat) =>
            /\ availableNamesIndices' = availableNamesIndices
            /\ availableTasksIndices' = availableTasksIndices
            /\ \/ /\ Len(history') = Len(history) + 1
                  /\ history'[1].mode = "groups" /\ Len(history'[1].groups) = numGroups
                  /\ tempMessage' = tempMessage
                  /\ resultTimer' /\ ~showResultCard'
               \/ /\ tempMessage # NoMessage /\ tempMessage' = NoMessage
                  /\ history' = history
               \/ /\ resultTimer /\ ~resultTimer' /\ showResultCard'
                  /\ history' = history /\ tempMessage' = tempMessage]_vars

\* groups were made while the no-repeat name pool was empty, and it still is
C31_Witness ==
    /\ isNameNoRepeat /\ availableNamesIndices = <<>>
    /\ isTaskNoRepeat /\ availableTasksIndices = <<>>
    /\ history # <<>> /\ history[1].mode = "groups"

\* -------------------------------------------------- the selection and the pool

\* Draws on MaxNames names and as many tasks in one of the modes single,
\* paired and interactive (the wheel), with the mode, the no-repeat switches
\* and the pools as they were restored at mount: the name pool full, the
\* task pool full or down to its last index (earlier paired draws, whose
\* history the Shuffle button has cleared since).
InitSelect ==
    /\ \E m \in {"single", "paired", "interactive"}, nameNoRepeat, taskNoRepeat \in BOOLEAN,
          taskPool \in {AllIndices(SubSeq(TaskRoster, 1, MaxNames)), <<MaxNames - 1>>} :
            InitApp([DefaultState(SubSeq(Roster, 1, MaxNames)) EXCEPT
                        !.tasks = SubSeq(TaskRoster, 1, MaxNames),
                        !.availableTasksIndices = taskPool,
                        !.mode = m,
                        !.isNameNoRepeat = nameNoRepeat,
                        !.isTaskNoRepeat = taskNoRepeat])
    /\ InitSim
    /\ probe = 0

NextSelect ==
    \/ \E u, v \in RandomValues :
            /\ Len(history) < MaxSessions
            /\ mode = "interactive" => sessionId < MaxSessions
            /\ ClickDraw([name |-> u, task |-> v, order |-> names, id |-> 0], NoRaceInput)
    \/ Tick(6000, 0)
    \/ FireTimer(NoRaceInput)
    \/ ToastExpire(NoRaceInput)
    \/ ShowResult(NoRaceInput)

SpecSelect == InitSelect /\ [][NextSelect]_vars

\* index is the entry of pool at some position, item the entry of list at
\* that index, and stored is pool with that position removed
DrawnFrom(pool, list, index, item, stored) ==
    \E pos \in DOMAIN pool :
        /\ pool[pos] = index
        /\ list[index + 1] = item
        /\ stored = SpliceOut(pool, pos - 1)

\* the name an accepted draw selects and the name pool it stores
NameRule(index, item) ==
    IF isNameNoRepeat
    THEN DrawnFrom(FilterValid(availableNamesIndices, names), names, index, item,
                   availableNamesIndices')
    ELSE /\ availableNamesIndices' = availableNamesIndices
         /\ index \in 0..(Len(names) - 1) /\ names[index + 1] = item
         /\ \A i \in 0..(Len(names) - 1) :
                \E u \in RandomValues : selectNameIndex(AppRec, u).idx = i

\* What an accepted draw selects and stores: a single or paired draw is
\* accepted in the step that logs its entry, an interactive draw in the step
\* that sets isSpinning. refill: the task pool the draw selects from is the
\* full index range when the filtered task pool is empty (selectTask's reset).
SelectionRule(refill) ==
    /\ (mode \in {"single", "paired"} /\ Len(history') = Len(history) + 1) =>
        LET result == history'[1].result
            filtered == FilterValid(availableTasksIndices, tasks)
            taskPool == IF refill /\ filtered = <<>> THEN AllIndices(tasks) ELSE filtered
        IN  /\ \E index \in 0..(Len(names) - 1) : NameRule(index, result[1])
            /\ mode = "paired" =>
                IF isTaskNoRepeat
                THEN \E index \in 0..(Len(tasks) - 1) :
                        DrawnFrom(taskPool, tasks, index, result[3], availableTasksIndices')
                ELSE /\ availableTasksIndices' = availableTasksIndices
                     /\ result[3] \in Range(tasks)
                     /\ \A t \in Range(tasks) :
                            \E v \in RandomValues : selectTask(AppRec, v).task = t
            /\ mode = "single" => availableTasksIndices' = availableTasksIndices
    /\ (mode = "interactive" /\ ~isSpinning /\ isSpinning') =>
            /\ NameRule(currentWinner'.index, currentWinner'.name)
            /\ availableTasksIndices' = availableTasksIndices

\* C32 as amended: with no-repeat on, an accepted draw selects an index of
\* the pool filtered to valid indices (for a task, of the full index range
\* when that filtered pool is empty) and stores that pool with exactly the
\* selected position removed, the order of the others kept; with no-repeat
\* off the stored pool is unchanged and every index of the list can be
\* selected.
C32_SelectionAndPool == [][SelectionRule(TRUE)]_vars

\* C32 as stated: the index selected is always one of the filtered pool.
C32_SelectedFromFilteredPool == [][SelectionRule(FALSE)]_vars

\* both switches on, three names and three tasks: a paired draw took the
\* second name and the second task out of the full pools, leaving [0, 2] and
\* [0, 2]; the next took the third name and the first task, leaving [0] and
\* [2]
C32_Witness ==
    /\ mode = "paired" /\ isNameNoRepeat /\ isTaskNoRepeat
    /\ Len(names) = 3 /\ Len(tasks) = 3
    /\ Len(history) = 2
    /\ history[2].result[1] = names[2] /\ history[2].result[3] = tasks[2]
    /\ history[1].result[1] = names[3] /\ history[1].result[3] = tasks[1]
    /\ availableNamesIndices = <<0>> /\ availableTasksIndices = <<2>>

\* ------------------------------------------------ the running flag and its session

\* C33: whenever isSpinning is true a simulator session is live that will
\* invoke the completion callback: a completion timer is pending or the
\* animation loop of a race is running.
C33_SpinningHasSession ==
    isSpinning => (raf \/ \E i \in DOMAIN timers : timers[i].kind \in EndKinds)

\* C34: a completion callback takes effect only in the session that scheduled
\* it: the step in which a timer invokes the callback is a step of the newest
\* session, so it neither clears the running flag of a later session nor logs
\* or displays an earlier winner in place of the later session's.
C34_CallbackInOwnSession ==
    [][CompletionStep =>
            LET t == timers[NextTimer]
            IN  \/ t.sid = sessionId
                \/ /\ isSpinning' = isSpinning
                   /\ history' = history
                   /\ resultCardText' = resultCardText]_vars

\* ---------------------------------------------- history cleared during a session

\* One interactive session on two names with one earlier draw in the history
\* restored at mount, and the three history clears: Reset All Draws, Shuffle
\* and Clear (names).
InitClear ==
    /\ \E v \in {"wheel", "race", "marble", "card"} :
            InitApp([DefaultState(SubSeq(Roster, 1, 2)) EXCEPT
                        !.mode = "interactive", !.interactiveMode = v,
                        !.history = <<[id |-> 0, result |-> <<Roster[2]>>,
                                       mode |-> "single", groups |-> <<>>]>>])
    /\ InitSim
    /\ probe = 0

NextClear ==
    \/ \E u \in RandomValues :
            /\ sessionId = 0
            /\ ClickDraw(RequestInput(u), StillRaceInput)
    \/ ResetAllDraws(StillRaceInput)
    \/ \E shuffled \in Shuffles(names) : ShuffleNames(shuffled, StillRaceInput)
    \/ ClearList("names", StillRaceInput)
    \/ FrameTick(1000, 6000)
    \/ FireTimer(StillRaceInput)
    \/ AnimateDuck(NoWobble)
    \/ AnimateMarble
    \/ ToastExpire(StillRaceInput)
    \/ ShowResult(StillRaceInput)

SpecClear == InitClear /\ [][NextClear]_vars

\* C35: the step in which a session completes puts the winner's entry in
\* front of the history as it is at that moment, so a history cleared while
\* the session ran stays cleared and no removed entry comes back.
C35_CompletionKeepsClear ==
    [][CompletionStep =>
            /\ Len(history') = Len(history) + 1
            /\ Tail(history') = history
            /\ history'[1].result = <<currentWinner.name>>]_vars

\* -------------------------------------------------- the wheel and the list

\* SpinWheel render, lines 65-71: the name of the segment at the top of the
\* wheel drawn for list and turned by rotate(-rot deg); segment i covers the
\* angles from i * segmentAngle up to (i + 1) * segmentAngle
SegmentUnder(rot, list) == list[((rot % 360) * Len(list)) \div 360 + 1]

\* C36: when a spin completes, the name on the segment under the pointer of
\* the wheel at rest is the name finalized in the history for that spin,
\* whatever edits of the list were made while the wheel was spinning.
C36_PointerNameFinalized ==
    [][(CompletionStep /\ timers[NextTimer].kind = "spinEnd") =>
            /\ names # <<>>
            /\ rotation # NaN
            /\ SegmentUnder(rotation, names) = history'[1].result[1]]_vars

\* ------------------------------------------------- list edits reset the pool

\* C37: a step that changes a list (add, remove, clear, shuffle) or switches
\* its no-repeat flag on leaves that list's pool at the full index range of
\* the new list; a step that switches a no-repeat flag off leaves the pool as
\* it was.
C37_EditsResetPool ==
    [][/\ (names' # names \/ (~isNameNoRepeat /\ isNameNoRepeat')) =>
                availableNamesIndices' = AllIndices(names')
       /\ (tasks' # tasks \/ (~isTaskNoRepeat /\ isTaskNoRepeat')) =>
                availableTasksIndices' = AllIndices(tasks')
       /\ (isNameNoRepeat /\ ~isNameNoRepeat') =>
                availableNamesIndices' = availableNamesIndices
       /\ (isTaskNoRepeat /\ ~isTaskNoRepeat') =>
                availableTasksIndices' = availableTasksIndices]_vars

\* both switches have been turned off with a pool that a draw had taken an
\* index from, and a name added since has refilled the name pool only
C37_Witness ==
    /\ ~isNameNoRepeat /\ ~isTaskNoRepeat
    /\ Len(history) = 1
    /\ names = <<"John", "Zed">> /\ availableNamesIndices = <<0, 1>>
    /\ Len(tasks) = 2 /\ Len(availableTasksIndices) = 1

\* ---------------------------------------------- interactive draws on short lists

\* C38: in interactive mode on a list of fewer than 2 names no step, a draw
\* request included, selects a winner or starts a session (isSpinning, the
\* session count and the timers stay as they are), and the name pool and the
\* history are unchanged.
C38_ShortListRejected ==
    [][(mode = "interactive" /\ Len(names) < 2) =>
            /\ currentWinner' = currentWinner
            /\ isSpinning' = isSpinning
            /\ sessionId' = sessionId
            /\ timers' = timers
            /\ availableNamesIndices' = availableNamesIndices
            /\ history' = history]_vars

\* an interactive draw was requested on a list of one name
C38_Witness ==
    /\ mode = "interactive"
    /\ Len(names) = 1
    /\ tempMessage = <<"Need at least 2 names.">>
    /\ ~isSpinning /\ sessionId = 0

====
